---- MODULE Spec2Model ----
(***************************************************************************)
(* Arcade simulation core of BrickBreaker2500: the brick game's            *)
(* ScoreManager, Brick state machine, Physics tests and Game handlers, and *)
(* the jump game's CollisionSystem / bubble split, PowerUpManager,         *)
(* EntityManager, Game.gameLoop and the two particle stores.               *)
(*                                                                         *)
(* Time.  Game.gameLoop calls update only with dt = fixedTimeStep = 1/60 s.*)
(* A timer is kept as the number of fixed steps after which the program's  *)
(* double reaches <= 0: "timer > 0" in the source is "timer > 0" here.     *)
(* In IEEE doubles 0.2 - 12*(1/60) and 2 - 120*(1/60) are still a tiny     *)
(* positive number, so destroyTime = 0.2 needs 13 steps and comboTimer = 2 *)
(* needs 121 steps.                                                        *)
(***************************************************************************)
EXTENDS Integers, Sequences, FiniteSets, TLC

VARIABLES
    \* ScoreManager (src/unnamed/part_003)
    score, combo, comboTimer, multiplier,
    lastOp,        \* the ScoreManager call just made, with its argument and result
    \* Brick game (src/unnamed/part_000, src/js/entities/Brick.js)
    bricks,        \* Game.bricks: sequence of brick records
    nextBrickExplodes,
    laserCooldown, \* Paddle.laserCooldown, in fixed steps
    pendingExplosions, \* setTimeout(() => handleExplosion(neighbor), 100) not yet run:
                   \* the brick (its index in Game.bricks, 0 once Game.bricks has been
                   \* replaced, and its corner), the fixed steps run since the timer was
                   \* set, and whether a life was lost or a game started since then
    lives,         \* Game.lives
    partyModeTimer, \* Game.partyModeTimer in fixed steps; partyModeActive is that it is > 0
    flowOp,        \* the handler that just ran
    maxCombo,      \* ScoreManager.maxCombo, read by Game.levelComplete
    levelTime,     \* fixed steps run since loadLevel
    rounds,        \* rounds of fixed steps run since loadLevel
    state,         \* Game.state
    outcomes,      \* outcome records emitted by the handler that just ran
    scoreCount,    \* per brick: number of addBrickScore calls made for its destruction
    ballTouched,   \* the bricks checkBallBrickCollision reported for the ball in the round
    \* Brick.checkCollision probe
    probe,
    \* Jump game (src/js/game.js, src/js/systems/CollisionSystem.js)
    bubbles,       \* the bubble entities, in creation order
    platforms,     \* the platform entities, in creation order
    jumpState,     \* Game.state of the jump game
    jumpEvents,    \* the events the frame that just ran has emitted on the EventBus
    jumpContacts,  \* the contacts handleBubblePlatformCollision was called for in that frame
    \* PowerUpManager (src/js/systems/PowerUpManager.js)
    activeEffects, \* PowerUpManager.activeEffects: sequence of [id, remaining]
    powerOp,       \* the PowerUpManager call just made
    \* EntityManager (src/js/core/EntityManager.js)
    entities,      \* EntityManager.entities: id -> entity
    entitiesByType, \* EntityManager.entitiesByType: type -> set of ids
    nextId,
    entityEvents,  \* the events the EntityManager call just made has emitted
    entityOp,      \* the EntityManager call just made
    issued,        \* the ids createEntity has returned so far
    \* Game.gameLoop and the launch intent (src/unnamed/part_000, src/js/input.js)
    accumulator,   \* Game.accumulator
    mouseJustPressed, \* InputManager.mouse.justPressed
    ballLaunched,  \* Ball.launched of the ball on the paddle
    loopOp,        \* the frame or listener that just ran
    \* Particle stores (src/js/systems/ParticleSystem.js, src/js/utils/ObjectPool.js)
    particles,     \* jump game ParticleSystem.particles: sequence of [n, lifetime]
    maxParticles,  \* jump game ParticleSystem.maxParticles
    poolActive,    \* brick game ObjectPool.active: sequence of [n, life]
    poolFree,      \* brick game ObjectPool.pool.length
    nextSerial,    \* the number the next particle created or initialised is given
    particleOp,    \* the particle store call just made
    \* Physics.checkBallBrickCollision (src/unnamed/part_004)
    ballProbe,     \* the call just made: ball <<x, y, vx, vy>> and brick given, ball after, result
    busListeners,  \* EventBus.listeners.get(event): the callbacks, in subscription order
    busOnce,  \* EventBus.onceListeners.get(event)
    busReentered,  \* the callbacks that have emitted the event from inside their call
    busOnceCalls,  \* per callback registered with once: the number of its invocations so far
    nextCallback,  \* the number the next callback subscribed is given
    busOp, \* the EventBus call just made and, for emit, the callbacks it invoked
    paddleWidth,  \* Paddle.width of Game.paddle
    powerUps,  \* PowerUpManager.powerUps.length: the falling power-ups
    autoBurstBallsRemaining,  \* Game.autoBurstBallsRemaining; Game.autoBurstActive is that it is > 0
    effectOp, \* the Game handler that just ran on the effects, and its power-up type
    reverseGravityEntities,  \* PhysicsSystem.reverseGravityEntities: set of bubble ids
    reverseGravityTimers,  \* PhysicsSystem.reverseGravityTimers: bubble id -> timer handle
    hasReverseGravity,  \* per bubble id: bubble.hasReverseGravity
    timeouts,  \* the setTimeout calls not yet run or cleared, in the order they were made
    gravityOp  \* the listener or timer callback that just ran

scoreVars == <<score, combo, comboTimer, multiplier, lastOp>>
brickVars == <<bricks, maxCombo, nextBrickExplodes, laserCooldown, pendingExplosions, levelTime, state, rounds,
               outcomes, scoreCount, ballTouched, lives, flowOp, partyModeTimer>>
geomVars  == <<probe>>
jumpVars  == <<bubbles, platforms, jumpState, jumpEvents, jumpContacts>>
powerVars == <<activeEffects, powerOp>>
entityVars == <<entities, entitiesByType, nextId, entityEvents, entityOp, issued>>
loopVars  == <<accumulator, mouseJustPressed, ballLaunched, loopOp>>
particleVars == <<particles, maxParticles, poolActive, poolFree, nextSerial, particleOp>>
respVars == <<ballProbe>>
busVars == <<busListeners, busOnce, busReentered, busOnceCalls, nextCallback, busOp>>
effectVars == <<paddleWidth, powerUps, autoBurstBallsRemaining, effectOp>>
gravityVars == <<reverseGravityEntities, reverseGravityTimers, hasReverseGravity, timeouts, gravityOp>>
auxVars   == <<powerVars, entityVars, loopVars, particleVars, respVars, busVars, effectVars, gravityVars>>
coreVars  == <<scoreVars, brickVars, geomVars, jumpVars>>
vars == <<scoreVars, brickVars, geomVars, jumpVars, auxVars>>

\* the values of a component's variables in a specification that does not run it
BrickIdle ==
    /\ bricks = <<>> /\ nextBrickExplodes = FALSE /\ laserCooldown = 0
    /\ pendingExplosions = <<>>
    /\ maxCombo = 0 /\ levelTime = 0 /\ state = "menu" /\ rounds = 0
    /\ outcomes = <<>> /\ scoreCount = <<>> /\ ballTouched = {}
    /\ lives = 0 /\ flowOp = "" /\ partyModeTimer = 0
GeomIdle == probe = <<>>
JumpIdle ==
    /\ bubbles = <<>> /\ platforms = <<>> /\ jumpState = "menu" /\ jumpEvents = <<>>
    /\ jumpContacts = <<>>
PowerIdle == activeEffects = <<>> /\ powerOp = <<>>
EntityIdle ==
    /\ entities = <<>> /\ entitiesByType = <<>> /\ nextId = 1
    /\ entityEvents = <<>> /\ entityOp = <<>> /\ issued = {}
LoopIdle == accumulator = 0 /\ mouseJustPressed = FALSE /\ ballLaunched = FALSE /\ loopOp = <<>>
ParticleIdle ==
    /\ particles = <<>> /\ maxParticles = 0 /\ poolActive = <<>> /\ poolFree = 0
    /\ nextSerial = 1 /\ particleOp = [op |-> "none", count |-> 0]
RespIdle == ballProbe = <<>>
BusIdle ==
    /\ busListeners = <<>> /\ busOnce = <<>> /\ busReentered = {} /\ busOnceCalls = <<>>
    /\ nextCallback = 1 /\ busOp = <<>>
EffectIdle == paddleWidth = 0 /\ powerUps = 0 /\ autoBurstBallsRemaining = 0 /\ effectOp = <<>>
GravityIdle ==
    /\ reverseGravityEntities = {} /\ reverseGravityTimers = <<>> /\ hasReverseGravity = <<>>
    /\ timeouts = <<>> /\ gravityOp = <<>>
AuxIdle == PowerIdle /\ EntityIdle /\ LoopIdle /\ ParticleIdle /\ RespIdle /\ BusIdle /\ EffectIdle /\ GravityIdle

Min(a, b) == IF a < b THEN a ELSE b
Max(a, b) == IF a > b THEN a ELSE b

(***************************************************************************)
(* Bounds of the model.                                                    *)
(***************************************************************************)
MaxCombo == 22      \* addBrickScore is not taken beyond this combo
MaxScore == 300     \* addBrickScore is not taken beyond this score
MaxRounds == 5      \* rounds of fixed steps modelled after loadLevel
MaxOverHits == 2    \* no handler is taken that brings a brick below -MaxOverHits hits
MaxBubbles == 3     \* no frame is taken that creates more bubbles than this
MaxEntityId == 4    \* createEntity is called while nextId <= MaxEntityId
MaxContactBubbles == 2 \* bubbles of the frames with several overlaps
MaxSerial == 6      \* particles are requested while nextSerial <= MaxSerial
PoolCap == 3        \* the cap of the pooled emit (200 in the source), scaled down
DefaultMaxParticles == 3 \* the maxParticles of the constructor (100 in the source), scaled down

(***************************************************************************)
(* ScoreManager                                                            *)
(***************************************************************************)
\* comboTimeout = 2 s, in fixed steps (see Time above)
ComboSteps == 121

\* the base points the model passes to addBrickScore in the ScoreManager specification
BasePoints == {0, 50}

\* 10 * Math.min(1 + (combo - 1) * 0.1, 3): the combo multiplier in tenths
ComboMultiplierNoCap(c) == 10 + (c - 1)
ComboMultiplier(c) == Min(10 + (c - 1), 30)

\* Math.floor(basePoints * totalMultiplier) is computed in IEEE doubles.  For the
\* base points of this model it is the exact floor except for the triples
\* <<combo, multiplier, basePoints>> below, where the double product falls just
\* short of the integer (e.g. 1 + 13 * 0.1 = 2.3000000000000003 is fine but
\* 50 * 2.3 = 114.99999999999999, so 114 is awarded).
DoubleShort ==
    { <<5, 1, 85>>, <<5, 1, 170>>, <<5, 2, 85>>, <<5, 2, 170>>,
      <<14, 1, 50>>, <<14, 1, 170>>, <<14, 2, 25>>, <<14, 2, 50>>,
      <<14, 2, 85>>, <<14, 2, 170>>,
      <<19, 1, 85>>, <<19, 1, 170>>, <<19, 2, 85>>, <<19, 2, 170>> }

\* Math.floor(base * (comboMultiplier * mult)) for combo c
FloorPoints(base, c, cm, mult) ==
    ((base * cm * mult) \div 10) - (IF <<c, mult, base>> \in DoubleShort THEN 1 ELSE 0)

\* ScoreManager as a record, so that handlers can thread it through several calls
SM(s, c, t, m) == [score |-> s, combo |-> c, comboTimer |-> t, multiplier |-> m]

PointsPreIncrement(sm, base) ==
    FloorPoints(base, sm.combo, ComboMultiplier(sm.combo), sm.multiplier)
\* the value addBrickScore returns (and adds to score)
BrickScorePoints(sm, base) ==
    FloorPoints(base, sm.combo + 1, ComboMultiplier(sm.combo + 1), sm.multiplier)

AddBrickScore(sm, base) ==
    [sm EXCEPT !.combo = @ + 1,
               !.comboTimer = ComboSteps,
               !.score = @ + BrickScorePoints(sm, base)]

\* update(dt) with dt = fixedTimeStep, combo timer part
ScoreUpdateLate(sm) ==
    IF sm.comboTimer > 0
    THEN [sm EXCEPT !.comboTimer = @ - 1]
    ELSE [sm EXCEPT !.combo = 0]
ScoreUpdate(sm) ==
    IF sm.comboTimer > 0
    THEN [sm EXCEPT !.comboTimer = @ - 1,
                    !.combo = IF sm.comboTimer - 1 <= 0 THEN 0 ELSE @]
    ELSE sm

ResetCombo(sm) == [sm EXCEPT !.combo = 0, !.comboTimer = 0]

CurSM == SM(score, combo, comboTimer, multiplier)

SetSM(sm) ==
    /\ score' = sm.score
    /\ combo' = sm.combo
    /\ comboTimer' = sm.comboTimer
    /\ multiplier' = sm.multiplier

\* the call just made: its name, argument and return value and, for update, the
\* combo and timer it was called with
Op(name, base, ret, sm) ==
    [op |-> name, base |-> base, ret |-> ret,
     combo0 |-> IF name = "update" THEN sm.combo ELSE 0,
     timer0 |-> IF name = "update" THEN sm.comboTimer ELSE 0]

ScoreInit ==
    /\ score = 0 /\ combo = 0 /\ comboTimer = 0 /\ multiplier = 1
    /\ lastOp = Op("new", 0, 0, SM(0, 0, 0, 1))

SmAddBrickScore(base) ==
    /\ combo < MaxCombo
    /\ score + BrickScorePoints(CurSM, base) <= MaxScore
    /\ SetSM(AddBrickScore(CurSM, base))
    /\ lastOp' = Op("addBrickScore", base, BrickScorePoints(CurSM, base), CurSM)

SmUpdate ==
    /\ SetSM(ScoreUpdate(CurSM))
    /\ lastOp' = Op("update", 0, 0, CurSM)

SmResetCombo ==
    /\ SetSM(ResetCombo(CurSM))
    /\ lastOp' = Op("resetCombo", 0, 0, CurSM)

SmReset ==
    /\ SetSM(SM(0, 0, 0, 1))
    /\ lastOp' = Op("reset", 0, 0, CurSM)

SmSetMultiplier ==
    /\ SetSM([CurSM EXCEPT !.multiplier = 2])
    /\ lastOp' = Op("setMultiplier", 0, 0, CurSM)

SmResetMultiplier ==
    /\ SetSM([CurSM EXCEPT !.multiplier = 1])
    /\ lastOp' = Op("resetMultiplier", 0, 0, CurSM)


(***************************************************************************)
(* Brick (src/js/entities/Brick.js)                                        *)
(***************************************************************************)
\* BrickTypes.METAL.hits = Infinity
Infinity == 1000000
\* Brick.maxClones
MaxClones == 3
\* startDestroy: destroyTime = 0.2 s, in fixed steps (see Time above)
DestroySteps == 13

\* BrickTypes[type].hits and .points
TypeHits(type) ==
    CASE type = "NORMAL" -> 1 [] type = "STRONG" -> 2 [] type = "SUPER" -> 3
      [] type = "METAL" -> Infinity [] type = "POWER" -> 1 [] type = "EXPLOSIVE" -> 1
      [] type = "MIRROR" -> 2 [] type = "MOVING" -> 2 [] type = "SUPER_POWERUP" -> 2
TypePoints(type) ==
    CASE type = "NORMAL" -> 10 [] type = "STRONG" -> 20 [] type = "SUPER" -> 30
      [] type = "METAL" -> 0 [] type = "POWER" -> 50 [] type = "EXPLOSIVE" -> 25
      [] type = "MIRROR" -> 75 [] type = "MOVING" -> 40 [] type = "SUPER_POWERUP" -> 150

\* new Brick(x, y, width, height, type); originalBrick 0 is null, clones holds
\* indexes into Game.bricks, hiddenPowerUp is whether a power-up is assigned,
\* moveTarget is <<moveTargetX, moveTargetY>>
NewBrick(x, y, type) ==
    [x |-> x, y |-> y, type |-> type,
     hitsRemaining |-> TypeHits(type), points |-> TypePoints(type),
     destroyed |-> FALSE, destroying |-> FALSE, destroyTime |-> 0,
     isClone |-> FALSE, originalBrick |-> 0, clones |-> <<>>,
     maxHits |-> TypeHits(type), hiddenPowerUp |-> FALSE,
     isMoving |-> FALSE, moveTarget |-> <<x, y>>]

\* Brick.setHiddenPowerUp, Brick.setMoveTarget
SetHiddenPowerUp(b) == [b EXCEPT !.hiddenPowerUp = TRUE]
SetMoveTarget(b, pos) == [b EXCEPT !.moveTarget = pos, !.isMoving = TRUE]

\* LevelManager.applyLevelStrength with extraHits drawn (0: the brick is not strengthened)
ApplyLevelStrength(b, extraHits) ==
    IF extraHits = 0 \/ b.type \in {"METAL", "POWER"} THEN b
    ELSE [b EXCEPT !.hitsRemaining = @ + extraHits, !.maxHits = b.hitsRemaining + extraHits,
                   !.points = @ + extraHits * 10]

\* Brick.hit: shouldCreateClone, with h the decremented hitsRemaining
ShouldCreateCloneAlsoClones(b, h) ==
    b.type = "MIRROR" /\ h = 1 /\ Len(b.clones) < MaxClones
ShouldCreateClone(b, h) ==
    b.type = "MIRROR" /\ h = 1 /\ ~b.isClone /\ Len(b.clones) < MaxClones

\* Brick.startDestroy
StartDestroy(b) == [b EXCEPT !.destroying = TRUE, !.destroyTime = DestroySteps]

\* Brick.hit: the brick after the call and the result object
Hit(b) ==
    IF b.destroyed \/ b.hitsRemaining = Infinity
    THEN [brick |-> b,
          res |-> [destroyed |-> FALSE, points |-> 0, explosive |-> FALSE,
                   createClone |-> FALSE, isClone |-> FALSE, originalBrick |-> 0,
                   dropPowerUp |-> FALSE, isSuperPowerup |-> FALSE,
                   shouldTeleport |-> FALSE]]
    ELSE LET h == b.hitsRemaining - 1
             hb == [b EXCEPT !.hitsRemaining = h]
         IN  IF h <= 0
             THEN [brick |-> StartDestroy(hb),
                   res |-> [destroyed |-> TRUE, points |-> b.points,
                            explosive |-> (b.type = "EXPLOSIVE"),
                            createClone |-> FALSE, isClone |-> b.isClone,
                            originalBrick |-> b.originalBrick,
                            dropPowerUp |-> (b.type \in {"POWER", "SUPER_POWERUP"}
                                             \/ b.hiddenPowerUp),
                            isSuperPowerup |-> (b.type = "SUPER_POWERUP"),
                            shouldTeleport |-> FALSE]]
             ELSE [brick |-> hb,
                   res |-> [destroyed |-> FALSE, points |-> 5, explosive |-> FALSE,
                            createClone |-> ShouldCreateClone(b, h), isClone |-> FALSE,
                            originalBrick |-> 0,
                            dropPowerUp |-> FALSE, isSuperPowerup |-> FALSE,
                            shouldTeleport |-> (b.type = "MOVING" /\ h > 0)]]

\* Brick.update(dt), destroy animation part
BrickAnimate(b) ==
    IF b.destroying
    THEN [b EXCEPT !.destroyTime = IF @ > 0 THEN @ - 1 ELSE 0,
                   !.destroyed = (b.destroyed \/ b.destroyTime - 1 <= 0)]
    ELSE b

\* moveSpeed * 60 * dt: pixels a moving brick travels in a fixed step
MoveSpeed == 5
Abs(n) == IF n < 0 THEN -n ELSE n
Sign(n) == IF n < 0 THEN -1 ELSE IF n > 0 THEN 1 ELSE 0

\* Brick.update(dt), movement part, for a target in the brick's row or column
\* (the distance is then |dx| + |dy| and every position is a whole pixel)
BrickMove(b) ==
    LET dx == b.moveTarget[1] - b.x
        dy == b.moveTarget[2] - b.y
        dist == Abs(dx) + Abs(dy)
    IN  IF ~b.isMoving THEN b
        ELSE IF dist < 2
        THEN [b EXCEPT !.x = b.moveTarget[1], !.y = b.moveTarget[2], !.isMoving = FALSE]
        ELSE [b EXCEPT !.x = @ + Sign(dx) * Min(MoveSpeed, dist),
                       !.y = @ + Sign(dy) * Min(MoveSpeed, dist)]

\* Brick.update(dt); a names the brick after the destroy animation part
BrickUpdate(b) == CHOOSE r \in { BrickMove(a) : a \in {BrickAnimate(b)} } : TRUE

(***************************************************************************)
(* Geometry.  Lengths are canvas pixels.  The level, the canvas and the    *)
(* positions of ball and laser are inputs of the program; the model draws  *)
(* them from the small sets below.                                         *)
(***************************************************************************)
\* LevelManager.generateLevel: brickWidth, brickHeight and the cell pitch for a
\* 400 x 600 canvas (sideOffset 8, topOffset 48, padding 4)
BrickW == 44
BrickH == 20
CellX(col) == 8 + col * 48
CellY(row) == 48 + row * 24
\* Game.createBallOnPaddle: ballRadius for scaleFactor 1
BallRadius == 8
\* Paddle.shootLaser: width and height of a laser
LaserW == 4
LaserH == 15
\* canvas.width, canvas.height
CanvasW == 400
CanvasH == 600

\* Brick.checkCollision(ball): "none" for null, else the axis and side.  bx, by is
\* the ball's centre, r its radius; x, y the brick's corner.
CheckCollisionStrict(bx, by, r, x, y, destroyed) ==
    LET overlapLeft == (bx + r) - x
        overlapRight == (x + BrickW) - (bx - r)
        overlapTop == (by + r) - y
        overlapBottom == (y + BrickH) - (by - r)
    IN  IF destroyed THEN "none"
        ELSE IF bx + r > x /\ bx - r < x + BrickW /\ by + r > y /\ by - r < y + BrickH
        THEN IF Min(overlapLeft, overlapRight) < Min(overlapTop, overlapBottom)
             THEN (IF overlapLeft < overlapRight THEN "x-left" ELSE "x-right")
             ELSE (IF overlapTop < overlapBottom THEN "y-top" ELSE "y-bottom")
        ELSE "none"
\* Brick.checkCollision with the horizontal axis chosen on equal overlaps
CheckCollisionTieX(bx, by, r, x, y, destroyed) ==
    LET overlapLeft == (bx + r) - x
        overlapRight == (x + BrickW) - (bx - r)
        overlapTop == (by + r) - y
        overlapBottom == (y + BrickH) - (by - r)
    IN  IF destroyed THEN "none"
        ELSE IF bx + r >= x /\ bx - r <= x + BrickW /\ by + r >= y /\ by - r <= y + BrickH
        THEN IF Min(overlapLeft, overlapRight) <= Min(overlapTop, overlapBottom)
             THEN (IF overlapLeft < overlapRight THEN "x-left" ELSE "x-right")
             ELSE (IF overlapTop < overlapBottom THEN "y-top" ELSE "y-bottom")
        ELSE "none"
CheckCollision(bx, by, r, x, y, destroyed) ==
    LET overlapLeft == (bx + r) - x
        overlapRight == (x + BrickW) - (bx - r)
        overlapTop == (by + r) - y
        overlapBottom == (y + BrickH) - (by - r)
    IN  IF destroyed THEN "none"
        ELSE IF bx + r >= x /\ bx - r <= x + BrickW /\ by + r >= y /\ by - r <= y + BrickH
        THEN IF Min(overlapLeft, overlapRight) < Min(overlapTop, overlapBottom)
             THEN (IF overlapLeft < overlapRight THEN "x-left" ELSE "x-right")
             ELSE (IF overlapTop < overlapBottom THEN "y-top" ELSE "y-bottom")
        ELSE "none"

(***************************************************************************)
(* Physics (src/unnamed/part_004)                                          *)
(***************************************************************************)
\* checkBallBrickCollision: does the test report a collision of the ball at pos
\* with brick b (the response to it changes only the ball)
BallBrickCollisionAlsoDestroying(pos, b) ==
    /\ ~b.destroyed
    /\ CheckCollision(pos[1], pos[2], BallRadius, b.x, b.y, b.destroyed) # "none"
BallBrickCollision(pos, b) ==
    /\ ~(b.destroyed \/ b.destroying)
    /\ CheckCollision(pos[1], pos[2], BallRadius, b.x, b.y, b.destroyed) # "none"

\* checkLaserBrickCollision, pos the laser's corner
LaserBrickCollision(pos, b) ==
    /\ ~b.destroyed
    /\ pos[1] < b.x + BrickW
    /\ pos[1] + LaserW > b.x
    /\ pos[2] < b.y + BrickH
    /\ pos[2] + LaserH > b.y

\* getNeighborBricks(brick, allBricks, radius) with radius = rad2 / 2:
\* distance <= (width + height) * radius, compared in squares.  Brick centres
\* differ as the corners do, all bricks having one size.
InRadius(a, b, rad2) ==
    4 * ((a.x - b.x) * (a.x - b.x) + (a.y - b.y) * (a.y - b.y))
        <= (BrickW + BrickH) * (BrickW + BrickH) * rad2 * rad2
\* e is the exploding brick: its index in the list (0 if it is not in the list)
\* and its corner
NeighborIndexes(bs, e, rad2) ==
    { j \in 1..Len(bs) : j # e.idx /\ ~bs[j].destroyed /\ InRadius(e, bs[j], rad2) }

\* the first brick of the list for which Test(pos, brick) holds; 0 if none
RECURSIVE FirstBallBrick(_, _, _)
FirstBallBrick(bs, pos, k) ==
    IF k > Len(bs) THEN 0
    ELSE IF BallBrickCollision(pos, bs[k]) THEN k
    ELSE FirstBallBrick(bs, pos, k + 1)
RECURSIVE FirstLaserBrick(_, _, _)
FirstLaserBrick(bs, pos, k) ==
    IF k > Len(bs) THEN 0
    ELSE IF LaserBrickCollision(pos, bs[k]) THEN k
    ELSE FirstLaserBrick(bs, pos, k + 1)

(***************************************************************************)
(* Game (src/unnamed/part_000).  A handler is an operator on the record w  *)
(* of everything the handlers change, so that one fixed step can apply     *)
(* several of them in the order of Game.update.                            *)
(***************************************************************************)
World(bs, sm, mc, nbe, cd, pend, t, st, outs, sc, lv) ==
    [bricks |-> bs, sm |-> sm, maxCombo |-> mc, nbe |-> nbe, laserCooldown |-> cd,
     pending |-> pend, lives |-> lv,
     time |-> t, state |-> st, outcomes |-> outs, scoreCount |-> sc,
     party |-> 0, luck |-> FALSE]

\* scoreManager.addBrickScore(base, ..) called for brick i; kind "score" is the
\* brick's own destruction, "bonus" the clone-destruction bonus paid for origin i
EmitScore(w, i, base, kind) ==
    [w EXCEPT !.sm = AddBrickScore(@, base),
              !.maxCombo = Max(@, w.sm.combo + 1),
              !.outcomes = Append(@, [kind |-> kind, brick |-> i, base |-> base,
                                      points |-> BrickScorePoints(w.sm, base)]),
              !.scoreCount[i] = IF kind = "score" THEN @ + 1 ELSE @]

\* the positions findEmptyBrickPosition draws from, as corners <<x, y>>
SpawnCandidates == { <<56, 96>>, <<200, 120>> }
NoPos == <<-1, -1>>

\* findEmptyBrickPosition(brick i): every position the 50 random attempts may
\* return, and NoPos (null) for 50 failed attempts
FindEmptyBrickPosition(bs, i) ==
    { p \in SpawnCandidates :
        /\ p[1] >= 5 /\ p[1] < CanvasW - BrickW - 5
        /\ p[2] >= 50 /\ 2 * p[2] < CanvasH - 2 * BrickH
        /\ \A k \in 1..Len(bs) :
             (k # i /\ ~bs[k].isMoving) =>
                      ~ ( /\ p[1] < bs[k].x + BrickW + 5
                          /\ p[1] + BrickW + 5 > bs[k].x
                          /\ p[2] < bs[k].y + BrickH + 5
                          /\ p[2] + BrickH + 5 > bs[k].y )
        /\ (p[1] - bs[i].x) * (p[1] - bs[i].x)
             + (p[2] - bs[i].y) * (p[2] - bs[i].y) > 100 * 100 }
    \cup {NoPos}

\* createMirrorClone(originalBrick i) with the position findEmptyBrickPosition returned
CreateMirrorClone(w, i, pos) ==
    IF pos = NoPos THEN w
    ELSE LET clone == [NewBrick(pos[1], pos[2], "MIRROR") EXCEPT
                          !.isClone = TRUE, !.originalBrick = i]
             n == Len(w.bricks) + 1
         IN  [w EXCEPT !.bricks = Append([@ EXCEPT ![i].clones = Append(@, n)], clone),
                       !.scoreCount = Append(@, 0),
                       !.outcomes = Append(@, [kind |-> "clone", brick |-> i,
                                               base |-> 0, points |-> 0])]

\* the brick i of the list as handleExplosion is given it
Exploding(bs, i) == [idx |-> i, x |-> bs[i].x, y |-> bs[i].y]

\* setTimeout(() => this.handleExplosion(neighbor), 100) for neighbor i
Timer(bs, i) == [idx |-> i, x |-> bs[i].x, y |-> bs[i].y, age |-> 0, old |-> FALSE]

\* handleExplosion(brick e): the neighbours within 1.5 x (width + height), hit in
\* list order
RECURSIVE ExplodeNeighbors(_, _, _)
ExplodeNeighbors(w, ns, k) ==
    IF k > Len(w.bricks) THEN w
    ELSE IF k \notin ns THEN ExplodeNeighbors(w, ns, k + 1)
    ELSE LET h == Hit(w.bricks[k])
             w1 == [w EXCEPT !.bricks[k] = h.brick]
             w2 == IF h.res.destroyed THEN EmitScore(w1, k, h.res.points, "score") ELSE w1
             w3 == IF h.res.destroyed /\ h.res.explosive
                   THEN [w2 EXCEPT !.pending = Append(@, Timer(w.bricks, k))]
                   ELSE w2
         IN  ExplodeNeighbors(w3, ns, k + 1)

BlastNeighborsDefaultRadius(bs, e) == NeighborIndexes(bs, e, 2)
\* physics.getNeighborBricks(brick, this.bricks, 1.5)
BlastNeighbors(bs, e) == NeighborIndexes(bs, e, 3)

HandleExplosion(w, e) ==
    ExplodeNeighbors(
        [w EXCEPT !.outcomes = Append(@, [kind |-> "explosion", brick |-> e.idx,
                                          base |-> 0, points |-> 0])],
        BlastNeighbors(w.bricks, e), 1)

\* handleBrickHit: a destroyed clone destroys its original, for a bonus
CloneBonus(w, o) ==
    [EmitScore(w, o, w.bricks[o].points * 2, "bonus") EXCEPT
        !.bricks[o] = StartDestroy(@)]

\* partyModeDuration = 10 s, in fixed steps: the timer is at or below 0 after 600
\* subtractions of 1/60
PartySteps == 600

\* activatePartyMode
ActivatePartyMode(w) == [w EXCEPT !.party = PartySteps]

\* powerUpManager.spawn / spawnSpecific at the centre of brick i
SpawnPowerUp(w, i) ==
    [w EXCEPT !.outcomes = Append(@, [kind |-> "powerup", brick |-> i,
                                      base |-> 0, points |-> 0])]

\* handleBrickHit, MOVING brick i, without the test of newPos
TeleportUnchecked(w, i, pos) ==
    [w EXCEPT !.bricks[i] = SetMoveTarget(@, pos),
              !.outcomes = IF pos = NoPos THEN @
                           ELSE Append(@, [kind |-> "teleport", brick |-> i,
                                           base |-> 0, points |-> 0])]

\* handleBrickHit, MOVING brick i: brick.setMoveTarget if a position was found
Teleport(w, i, pos) ==
    IF pos = NoPos THEN w
    ELSE [w EXCEPT !.bricks[i] = SetMoveTarget(@, pos),
                   !.outcomes = Append(@, [kind |-> "teleport", brick |-> i,
                                           base |-> 0, points |-> 0])]

\* the element of a singleton set: in The({ F(v) : v \in {e} }) the value of e is
\* computed once, however often F uses v
The(S) == CHOOSE r \in S : TRUE

\* handleBrickHit, the brick is not destroyed: MOVING teleport, MIRROR clone
PartialHit(w, i, pos, res) ==
    The({ IF res.createClone THEN CreateMirrorClone(wt, i, pos) ELSE wt
          : wt \in {IF res.shouldTeleport THEN Teleport(w, i, pos) ELSE w} })

\* handleBrickHit, a destroyed clone destroys its original
CloneOrigin(w, res) ==
    IF res.isClone /\ res.originalBrick # 0 /\ ~w.bricks[res.originalBrick].destroyed
    THEN CloneBonus(w, res.originalBrick)
    ELSE w

\* handleBrickHit, the power-up of the brick or of party mode
DropPowerUp(w, i, res) ==
    IF res.dropPowerUp \/ w.party > 0 THEN SpawnPowerUp(w, i) ELSE w

\* handleBrickHit, the random drop of a brick without power-up outside party mode
RandomDrop(w, i, res) ==
    IF ~res.dropPowerUp /\ w.party = 0 /\ w.luck THEN SpawnPowerUp(w, i) ELSE w

\* handleBrickHit, the brick is destroyed: the steps in the order of the code
DestroyedHit(w, i, res, explosive) ==
    The({ RandomDrop(w6, i, res)
          : w6 \in { IF explosive THEN HandleExplosion(w5, Exploding(w5.bricks, i)) ELSE w5
                     : w5 \in { DropPowerUp(w4, i, res)
                                : w4 \in { EmitScore(wp, i, res.points, "score")
                                           : wp \in { IF res.isSuperPowerup
                                                      THEN ActivatePartyMode(w3) ELSE w3
                                                      : w3 \in {CloneOrigin(w, res)} } } } } })

\* handleBrickHit(ball, brick i); pos is what findEmptyBrickPosition returns if called
HandleBrickHit(w, i, pos) ==
    The({ LET consume == w.nbe /\ ~h.res.explosive
              explosive == h.res.explosive \/ consume
          IN  The({ IF h.res.destroyed
                    THEN DestroyedHit(w1, i, h.res, explosive)
                    ELSE PartialHit(w1, i, pos, h.res)
                    : w1 \in {[w EXCEPT !.bricks[i] = h.brick,
                                        !.nbe = (@ /\ ~consume)]} })
          : h \in {Hit(w.bricks[i])} })

\* the positions to draw for handleBrickHit(brick i): findEmptyBrickPosition is
\* called only for a clone-creating hit and for a teleporting one, for which the
\* model draws positions in the brick's row or column (see BrickMove)
SpawnChoices(bs, i) ==
    IF i = 0 THEN {NoPos}
    ELSE IF Hit(bs[i]).res.createClone THEN FindEmptyBrickPosition(bs, i)
    ELSE IF Hit(bs[i]).res.shouldTeleport
    THEN { p \in FindEmptyBrickPosition(bs, i) :
             p = NoPos \/ p[1] = bs[i].x \/ p[2] = bs[i].y }
    ELSE {NoPos}

\* LevelManager.isLevelComplete
IsLevelComplete(bs) ==
    \A k \in 1..Len(bs) : bs[k].destroyed \/ bs[k].type = "METAL"

\* ScoreManager.calculateLevelScore(level, timeSeconds, livesRemaining).total with
\* the level time in fixed steps: Math.floor((300 - t / 60) * 10) is 3000 - ceil(t / 6)
\* in the program's doubles for every t the model reaches
Level == 1
Lives == 3
LevelScoreTotal(mc, t, lv) ==
    (500 + Level * 100) + Max(0, 3000 - ((t + 5) \div 6)) + lv * 1000 + mc * 50

\* Game.levelComplete: the level bonus (ScoreManager.addBonus) and the state
LevelComplete(w) ==
    [w EXCEPT !.sm.score = @ + LevelScoreTotal(w.maxCombo, w.time, w.lives),
              !.party = 0,
              !.state = "levelComplete"]

\* luck is whether Math.random() < 0.05 holds where handleBrickHit draws it
CurWorld ==
    [World(bricks, CurSM, maxCombo, nextBrickExplodes, laserCooldown,
           pendingExplosions, levelTime,
           state, <<>>, scoreCount, lives) EXCEPT !.party = partyModeTimer]

SetWorld(w) ==
    /\ bricks' = w.bricks
    /\ SetSM(w.sm)
    /\ maxCombo' = w.maxCombo
    /\ nextBrickExplodes' = w.nbe
    /\ laserCooldown' = w.laserCooldown
    /\ pendingExplosions' = w.pending
    /\ lives' = w.lives
    /\ levelTime' = w.time
    /\ state' = w.state
    /\ outcomes' = w.outcomes
    /\ scoreCount' = w.scoreCount
    /\ partyModeTimer' = w.party

WithinOverHits(w) ==
    \A k \in 1..Len(w.bricks) : w.bricks[k].hitsRemaining >= -MaxOverHits

\* a timer of 100 ms has run by the time 6 fixed steps and the one the
\* accumulator may carry over have run since it was set
MaxTimerSteps == 7
TimersDue(w) ==
    \A k \in 1..Len(w.pending) : w.pending[k].age <= MaxTimerSteps

\* the ball position of a step in which the ball is near no brick
NoBall == <<-100, -100>>

\* laserCooldownTime = 0.3 s, in fixed steps (see Time above)
LaserCooldownSteps == 19

\* Game.updateBalls, the loop over this.bricks without its break: every brick
\* the ball at ballPos collides with is hit
RECURSIVE BallBrickLoopNoBreak(_, _, _, _)
BallBrickLoopNoBreak(w, ballPos, pos, k) ==
    IF k > Len(w.bricks) THEN w
    ELSE IF BallBrickCollision(ballPos, w.bricks[k])
         THEN BallBrickLoopNoBreak(HandleBrickHit(w, k, pos), ballPos, pos, k + 1)
         ELSE BallBrickLoopNoBreak(w, ballPos, pos, k + 1)

\* Game.updateBalls, the loop over this.bricks from the k-th on: the first brick
\* the ball at ballPos collides with is hit and the loop is left (break)
RECURSIVE BallBrickLoop(_, _, _, _)
BallBrickLoop(w, ballPos, pos, k) ==
    IF k > Len(w.bricks) THEN w
    ELSE IF BallBrickCollision(ballPos, w.bricks[k])
         THEN HandleBrickHit(w, k, pos)
         ELSE BallBrickLoop(w, ballPos, pos, k + 1)

\* Game.update(fixedTimeStep) while PLAYING, first part: levelTime, Paddle.update
\* (laser cooldown), updateBalls (one ball at ballPos; pos is where a clone is
\* put if the hit creates one) and Brick.update of every brick
UpdateBalls(w, ballPos, pos) ==
    LET w1 == [w EXCEPT !.time = @ + 1,
                        !.party = IF @ > 0 THEN @ - 1 ELSE 0,
                        !.laserCooldown = IF @ > 0 THEN @ - 1 ELSE 0,
                        !.pending = [k \in 1..Len(@) |-> [@[k] EXCEPT !.age = @ + 1]]]
        w2 == BallBrickLoop(w1, ballPos, pos, 1)
    IN  [w2 EXCEPT !.bricks = [k \in 1..Len(@) |-> BrickUpdate(@[k])]]

\* Game.update, second part: updateLasers (one laser, touching brick li or none),
\* updatePowerUps (bomb: a Bomb Ball power-up is collected), scoreManager.update
\* and the level-complete test
UpdateRest(w, li, pos, bomb) ==
    LET w1 == IF li = 0 THEN w
              ELSE [HandleBrickHit(w, li, pos) EXCEPT
                       !.laserCooldown = LaserCooldownSteps - 1]
        w2 == [w1 EXCEPT !.nbe = (@ \/ bomb), !.sm = ScoreUpdate(@)]
    IN  IF IsLevelComplete(w2.bricks) THEN LevelComplete(w2) ELSE w2

\* n further fixed steps in which ball and laser touch no brick; update returns
\* at once when the state is not PLAYING
RECURSIVE UpdateIdle(_, _)
UpdateIdle(w, n) ==
    CHOOSE r \in
        { IF n = 0 \/ v.state # "playing" THEN v
          ELSE UpdateIdle(UpdateRest(UpdateBalls(v, NoBall, NoPos), 0, NoPos, FALSE), n - 1)
          : v \in {w} } : TRUE

(***************************************************************************)
(* Levels, inputs and the actions of the brick game                        *)
(***************************************************************************)
\* a brick of the level pattern at a grid cell, strengthened by extraHits
LevelBrick(type, col, row, extraHits) ==
    ApplyLevelStrength(NewBrick(CellX(col), CellY(row), type), extraHits)

\* the level layouts the model loads (LevelManager.generateLevel)
Levels ==
    { << LevelBrick("EXPLOSIVE", 0, 0, 0), LevelBrick("STRONG", 1, 0, 0),
         LevelBrick("NORMAL", 2, 0, 0), LevelBrick("NORMAL", 3, 0, 0) >>,
      << LevelBrick("MIRROR", 0, 0, 0), LevelBrick("EXPLOSIVE", 6, 3, 0) >>,
      << LevelBrick("MIRROR", 0, 0, 1), LevelBrick("SUPER", 1, 0, 0),
         LevelBrick("METAL", 2, 0, 0) >> }

\* what one round of fixed steps is given: the position of the ball's centre or
\* of a laser's corner inside a brick of the list, or neither (NoBall), whether a
\* Bomb Ball power-up is collected, and the number of fixed steps of the round,
\* of which only the first has the contact.
\* Lasers leave the paddle at least laserCooldownTime apart and rise at one
\* speed, so they reach a brick at least that far apart: a laser touches a
\* brick only when the cooldown of the laser before it has run out.
BallInputs(bs) == { <<bs[k].x + 22, bs[k].y + 10>> : k \in 1..Len(bs) }
LaserInputs(bs, cd) ==
    IF cd > 0 THEN {} ELSE { <<bs[k].x + 20, bs[k].y + 3>> : k \in 1..Len(bs) }
IdleSteps == {1, 12, 18}
RoundInputs(bs, cd) ==
    { <<b, NoBall, FALSE, 1>> : b \in BallInputs(bs) }
    \cup { <<NoBall, l, FALSE, 1>> : l \in LaserInputs(bs, cd) }
    \cup { <<NoBall, NoBall, TRUE, 1>> }
    \cup { <<NoBall, NoBall, FALSE, n>> : n \in IdleSteps }

\* Game.loadLevel of one of the layouts ls
LoadLevel(ls) ==
    /\ bricks \in ls
    /\ maxCombo = 0
    /\ nextBrickExplodes = FALSE
    /\ laserCooldown = 0
    /\ pendingExplosions = <<>>
    /\ levelTime = 0
    /\ state = "playing"
    /\ rounds = 0
    /\ outcomes = <<>>
    /\ scoreCount = [k \in 1..Len(bricks) |-> 0]
    /\ ballTouched = {}
    /\ lives = Lives
    /\ partyModeTimer = 0
    /\ flowOp = "loadLevel"

\* Game.gameLoop's fixed-timestep loop: n calls of update(fixedTimeStep) in a
\* row, the first with the given contacts
UpdateFrom(w, ballPos, laserPos, bomb, n) ==
    /\ state = "playing"
    /\ rounds < MaxRounds
    /\ \E w0 \in {w} :
         \E bi \in {FirstBallBrick(w0.bricks, ballPos, 1)} :
           \E p1 \in SpawnChoices(w0.bricks, bi) :
             \E w1 \in {UpdateBalls(w0, ballPos, p1)} :
             \E li \in {FirstLaserBrick(w1.bricks, laserPos, 1)} :
                 \E p2 \in SpawnChoices(w1.bricks, li) :
                   \E w2 \in {UpdateIdle(UpdateRest(w1, li, p2, bomb), n - 1)} :
                       /\ WithinOverHits(w2)
                       /\ TimersDue(w2)
                       /\ SetWorld(w2)
    /\ rounds' = rounds + 1
    /\ flowOp' = "update"
    /\ ballTouched' = { k \in 1..Len(bricks) : BallBrickCollision(ballPos, bricks[k]) }
    /\ UNCHANGED lastOp

Update(ballPos, laserPos, bomb, n) == UpdateFrom(CurWorld, ballPos, laserPos, bomb, n)

\* the callback of setTimeout(() => this.handleExplosion(neighbor), 100); timers of
\* equal delay run in the order they were set
ChainExplosion ==
    /\ pendingExplosions # <<>>
    /\ \E w \in {HandleExplosion([CurWorld EXCEPT !.pending = Tail(@)],
                                  Head(pendingExplosions))} :
           /\ WithinOverHits(w)
           /\ SetWorld(w)
    /\ ballTouched' = {}
    /\ flowOp' = "chain"
    /\ UNCHANGED <<rounds, lastOp>>

Init == ScoreInit /\ LoadLevel(Levels) /\ GeomIdle /\ JumpIdle /\ AuxIdle

Next ==
    \/ \E in \in RoundInputs(bricks, laserCooldown) :
          Update(in[1], in[2], in[3], in[4]) /\ UNCHANGED <<geomVars, jumpVars, auxVars>>
    \/ ChainExplosion /\ UNCHANGED <<geomVars, jumpVars, auxVars>>

Spec == Init /\ [][Next]_vars

(***************************************************************************)
(* The brick game with bricks touched by the ball only: no laser, no Bomb  *)
(* Ball and no EXPLOSIVE brick in the level                                *)
(***************************************************************************)
BallLevels ==
    { << LevelBrick("NORMAL", 0, 0, 0), LevelBrick("STRONG", 1, 0, 0),
         LevelBrick("SUPER", 2, 0, 0) >>,
      << LevelBrick("STRONG", 0, 0, 2), LevelBrick("METAL", 1, 0, 0) >> }

\* ball centres in the 4 px gap between a brick and the next one of its row:
\* the ball (radius 8) collides with both
BallGapInputs(bs) == { <<bs[k].x + BrickW + 2, bs[k].y + 10>> : k \in 1..Len(bs) }

BallRoundInputs(bs) ==
    { <<b, NoBall, FALSE, n>> : b \in BallInputs(bs) \cup BallGapInputs(bs), n \in {1, 13} }
    \cup { <<NoBall, NoBall, FALSE, n>> : n \in IdleSteps }

InitBall == ScoreInit /\ LoadLevel(BallLevels) /\ GeomIdle /\ JumpIdle /\ AuxIdle

NextBall ==
    \E in \in BallRoundInputs(bricks) :
        Update(in[1], in[2], in[3], in[4]) /\ UNCHANGED <<geomVars, jumpVars, auxVars>>

SpecBall == InitBall /\ [][NextBall]_vars

(***************************************************************************)
(* Brick.checkCollision probed at ball positions around one brick          *)
(***************************************************************************)
\* the brick probed (grid cell 1, 0) and the ball centres tried: on both sides of
\* each edge of the brick, exactly touching it, and in the middle
ProbeBrickX == 56
ProbeBrickY == 48
ProbeXs == {46, 47, 48, 49, 78, 107, 108, 109, 110}
ProbeYs == {38, 39, 40, 41, 58, 75, 76, 77, 78}

\* brick.checkCollision(ball) for a ball centred at bx, by
Probe(bx, by, destroyed) ==
    [bx |-> bx, by |-> by, destroyed |-> destroyed,
     res |-> CheckCollision(bx, by, BallRadius, ProbeBrickX, ProbeBrickY, destroyed)]

InitGeom ==
    /\ ScoreInit /\ BrickIdle /\ JumpIdle /\ AuxIdle
    /\ probe = Probe(78, 58, FALSE)

CheckProbe(bx, by, destroyed) ==
    /\ probe' = Probe(bx, by, destroyed)
    /\ UNCHANGED <<scoreVars, brickVars, jumpVars, auxVars>>

NextGeom ==
    \E bx \in ProbeXs, by \in ProbeYs, destroyed \in BOOLEAN : CheckProbe(bx, by, destroyed)

SpecGeom == InitGeom /\ [][NextGeom]_vars

(***************************************************************************)
(* Jump game (src/js/game.js, src/js/systems/CollisionSystem.js,           *)
(* src/js/systems/PhysicsSystem.js).  Velocities are in tenths of a pixel   *)
(* per frame.  Positions and the camera are not modelled: which bubble      *)
(* stands on which platform, and which bubble has left the screen, are      *)
(* inputs of a frame.                                                       *)
(***************************************************************************)
\* physics.gravity, jumpStrength, boostStrength, maxFallSpeed (ConfigManager)
Gravity == 4
JumpStrength == -80
BoostStrength == -150
MaxFallSpeed == 100

\* platforms.types.<type>.points
PlatformPoints(type) ==
    CASE type = "normal" -> 10 [] type = "breaking" -> 15 [] type = "boost" -> 20
      [] type = "rainbow" -> 50

\* Game.createBubble
CreateBubble(isClone) == [isClone |-> isClone, vy |-> 0, isDead |-> FALSE]
\* Game.createPlatform
CreatePlatform(type) == [platformType |-> type, hit |-> FALSE, markedForDeletion |-> FALSE]

\* a frame's state: the entities and the events emitted so far
Frame(bs, ps, evs) == [bubbles |-> bs, platforms |-> ps, events |-> evs]
Emit(f, ev, b, p, points) ==
    [f EXCEPT !.events = Append(@, [ev |-> ev, bubble |-> b, platform |-> p,
                                    points |-> points])]

\* Game.handleJump: physicsSystem.jump for every bubble that is not dead
HandleJump(f) ==
    [f EXCEPT !.bubbles = [b \in 1..Len(@) |->
        IF @[b].isDead THEN @[b] ELSE [@[b] EXCEPT !.vy = JumpStrength]]]

\* PhysicsSystem.updateBubble, vertical velocity: gravity, then the clamp
UpdateBubble(bubble, deltaTime) ==
    LET v == bubble.vy + Gravity * deltaTime
    IN  [bubble EXCEPT !.vy = IF v > MaxFallSpeed THEN MaxFallSpeed
                               ELSE IF v < -MaxFallSpeed THEN -MaxFallSpeed ELSE v]
\* PhysicsSystem.update: every bubble that is not dead
PhysicsUpdate(f, deltaTime) ==
    [f EXCEPT !.bubbles = [b \in 1..Len(@) |->
        IF @[b].isDead THEN @[b] ELSE UpdateBubble(@[b], deltaTime)]]

\* Game.handleBubbleSplit, the listener of bubble:split
HandleBubbleSplit(f, b) ==
    Emit([f EXCEPT !.bubbles = Append(@, [CreateBubble(TRUE) EXCEPT !.vy = f.bubbles[b].vy])],
         "score:add", 0, 0, 50)

\* CollisionSystem.handleRainbowCollision
HandleRainbowCollisionAlways(f, b, p) ==
    LET f1 == [f EXCEPT !.bubbles[b].vy = JumpStrength]
    IN  HandleBubbleSplit(Emit(f1, "bubble:split", b, p, 0), b)
HandleRainbowCollision(f, b, p) ==
    LET f1 == [f EXCEPT !.bubbles[b].vy = JumpStrength]
    IN  IF ~f.bubbles[b].isClone
        THEN HandleBubbleSplit(Emit(f1, "bubble:split", b, p, 0), b)
        ELSE f1

\* CollisionSystem.handleNormalCollision, handleBreakingCollision, handleBoostCollision
HandleNormalCollision(f, b, p) == [f EXCEPT !.bubbles[b].vy = JumpStrength]
HandleBreakingCollision(f, b, p) ==
    Emit([f EXCEPT !.bubbles[b].vy = JumpStrength,
                   !.platforms[p].markedForDeletion = TRUE],
         "platform:break", 0, p, 0)
HandleBoostCollision(f, b, p) ==
    Emit([f EXCEPT !.bubbles[b].vy = BoostStrength], "bubble:boosted", b, p, 0)

\* checkBubblePlatformCollision without the test of the bubble's vy
CheckBubblePlatformCollisionAnyVy(bubble, overlaps) == overlaps

\* CollisionSystem.checkBubblePlatformCollision with the overlap test answered by
\* the input: only a falling bubble collides
CheckBubblePlatformCollision(bubble, overlaps) == bubble.vy > 0 /\ overlaps

\* CollisionSystem.handleBubblePlatformCollision(bubble b, platform p)
HandleBubblePlatformCollision(f, b, p) ==
    LET type == f.platforms[p].platformType
        f1 == CASE type = "breaking" -> HandleBreakingCollision(f, b, p)
                [] type = "boost" -> HandleBoostCollision(f, b, p)
                [] type = "rainbow" -> HandleRainbowCollision(f, b, p)
                [] OTHER -> HandleNormalCollision(f, b, p)
        f2 == Emit(f1, "collision:" \o type, b, p, 0)
        f3 == IF ~f.platforms[p].hit
              THEN Emit([f2 EXCEPT !.platforms[p].hit = TRUE],
                        "score:add", 0, p, PlatformPoints(type))
              ELSE f2
    IN  Emit(f3, "collision:platform", b, p, 0)

\* a call of handleBubblePlatformCollision: the bubble, the platform, the
\* bubble's vy when checkBubblePlatformCollision was asked, and the platforms
\* the bubble's box overlapped in that pass
Contact(b, p, vy, over) == [bubble |-> b, platform |-> p, vy |-> vy, over |-> over]

\* CollisionSystem.update with bubble b overlapping platform p (b = 0: no overlap)
CollisionUpdate(f, b, p) ==
    IF /\ b # 0 /\ ~f.bubbles[b].isDead /\ ~f.platforms[p].markedForDeletion
       /\ CheckBubblePlatformCollision(f.bubbles[b], TRUE)
    THEN HandleBubblePlatformCollision(f, b, p)
    ELSE f

\* Game.checkBubbleDeath with bubble b below the screen (b = 0: none)
CheckBubbleDeath(f, b) ==
    IF b # 0 /\ ~f.bubbles[b].isDead
    THEN Emit([f EXCEPT !.bubbles[b].isDead = TRUE], "bubble:died", b, 0, 0)
    ELSE f

\* Game.cleanupPlatforms: a platform marked for deletion is destroyed
CleanupPlatforms(f) ==
    [f EXCEPT !.platforms = SelectSeq(@, LAMBDA q : ~q.markedForDeletion)]

\* Game.startGame: the initial bubble and the platforms of the model
StartPlatforms ==
    << CreatePlatform("normal"), CreatePlatform("rainbow"), CreatePlatform("rainbow"),
       CreatePlatform("breaking") >>
JumpInit ==
    /\ bubbles = <<CreateBubble(FALSE)>>
    /\ platforms = StartPlatforms
    /\ jumpState = "playing"
    /\ jumpEvents = <<>>
    /\ jumpContacts = <<>>

\* the frame lengths (deltaTime, in 60 Hz frames) the model draws
DeltaTimes == {20}

\* Game.loop while PLAYING: jump (the input was pressed), physics, collisions
\* (bubble b overlaps platform p), death (bubble fallen is below the screen),
\* platform cleanup and the game-over test
Loop(jump, deltaTime, b, p, fallen) ==
    /\ jumpState = "playing"
    /\ b <= Len(bubbles) /\ p <= Len(platforms) /\ fallen <= Len(bubbles)
    /\ \E f0 \in {Frame(bubbles, platforms, <<>>)} :
       \E f1 \in {PhysicsUpdate(IF jump THEN HandleJump(f0) ELSE f0, deltaTime)} :
       \E f2 \in {CleanupPlatforms(CheckBubbleDeath(CollisionUpdate(f1, b, p), fallen))} :
          /\ Len(f2.bubbles) <= MaxBubbles
          /\ bubbles' = f2.bubbles
          /\ platforms' = f2.platforms
          /\ jumpEvents' = f2.events
          /\ jumpContacts' = IF CollisionUpdate(f1, b, p) # f1
                             THEN <<Contact(b, p, f1.bubbles[b].vy, {p})>>
                             ELSE <<>>
          /\ jumpState' = IF \A k \in 1..Len(f2.bubbles) : f2.bubbles[k].isDead
                          THEN "gameOver" ELSE "playing"
    /\ UNCHANGED <<scoreVars, brickVars, geomVars, auxVars>>

\* what a frame is given: at most one of a jump, an overlap and a fallen bubble
FrameInputs ==
    { <<j, 0, 0, 0>> : j \in BOOLEAN }
    \cup { <<FALSE, b, p, 0>> : b \in 1..MaxBubbles, p \in 1..Len(StartPlatforms) }
    \cup { <<FALSE, 0, 0, b>> : b \in 1..MaxBubbles }

InitJump == ScoreInit /\ BrickIdle /\ GeomIdle /\ JumpInit /\ AuxIdle

NextJump ==
    \E in \in FrameInputs, deltaTime \in DeltaTimes :
        Loop(in[1], deltaTime, in[2], in[3], in[4])

SpecJump == InitJump /\ [][NextJump]_vars

(***************************************************************************)
(* The ScoreManager specification                                          *)
(***************************************************************************)

InitScore == ScoreInit /\ BrickIdle /\ GeomIdle /\ JumpIdle /\ AuxIdle

NextScore ==
    \/ \E base \in BasePoints : SmAddBrickScore(base) /\ UNCHANGED <<brickVars, geomVars, jumpVars, auxVars>>
    \/ SmUpdate /\ UNCHANGED <<brickVars, geomVars, jumpVars, auxVars>>
    \/ SmResetCombo /\ UNCHANGED <<brickVars, geomVars, jumpVars, auxVars>>
    \/ SmReset /\ UNCHANGED <<brickVars, geomVars, jumpVars, auxVars>>
    \/ SmSetMultiplier /\ UNCHANGED <<brickVars, geomVars, jumpVars, auxVars>>
    \/ SmResetMultiplier /\ UNCHANGED <<brickVars, geomVars, jumpVars, auxVars>>

SpecScore == InitScore /\ [][NextScore]_vars

(***************************************************************************)
(* PowerUpManager (src/js/systems/PowerUpManager.js): the active timed     *)
(* effects.  Times are in seconds; update is called with a dt drawn from   *)
(* PowerDts.  Whether a falling power-up reaches the paddle in an update   *)
(* call is an input (collected): update then returns before the effect     *)
(* timers are touched.                                                     *)
(***************************************************************************)
\* PowerUpTypes: id and duration of the types the model activates
PowerUpTypes ==
    { [id |-> "multiball", duration |-> 0],
      [id |-> "extend",    duration |-> 15],
      [id |-> "shrink",    duration |-> 10],
      [id |-> "slow",      duration |-> 8],
      [id |-> "explosive", duration |-> 0] }

\* the dt values update is called with
PowerDts == {1, 3}

\* activeEffects.find(e => e.type.id === id): index of the first entry, 0 if none
RECURSIVE FindEffect(_, _, _)
FindEffect(effects, id, k) ==
    IF k > Len(effects) THEN 0
    ELSE IF effects[k].id = id THEN k
    ELSE FindEffect(effects, id, k + 1)

\* PowerUpManager.activate without the test for an existing entry
ActivateStacking(effects, type) ==
    IF type.duration > 0
    THEN Append(effects, [id |-> type.id, remaining |-> type.duration])
    ELSE effects

\* PowerUpManager.activate
Activate(effects, type) ==
    LET existing == FindEffect(effects, type.id, 1)
    IN  IF existing # 0 /\ type.duration > 0
        THEN [effects EXCEPT ![existing].remaining = type.duration]
        ELSE IF type.duration > 0
        THEN Append(effects, [id |-> type.id, remaining |-> type.duration])
        ELSE effects

\* a sequence without its i-th element (Array.splice(i, 1))
Splice(s, i) == SubSeq(s, 1, i - 1) \o SubSeq(s, i + 1, Len(s))

\* PowerUpManager.update, the loop over activeEffects from index i down to 1:
\* each entry is decremented; at the first entry that reaches <= 0 the entry
\* is removed and update returns, leaving the entries before it untouched
RECURSIVE UpdateEffects(_, _, _)
UpdateEffects(effects, dt, i) ==
    IF i < 1 THEN [effects |-> effects, expired |-> ""]
    ELSE LET e1 == [effects EXCEPT ![i].remaining = @ - dt]
         IN  IF e1[i].remaining <= 0
             THEN [effects |-> Splice(e1, i), expired |-> e1[i].id]
             ELSE UpdateEffects(e1, dt, i - 1)

\* PowerUpManager.activate(type), as called by Game.applyPowerUp
PmActivate(type) ==
    /\ activeEffects' = Activate(activeEffects, type)
    /\ powerOp' = [op |-> "activate", id |-> type.id, duration |-> type.duration]

\* PowerUpManager.update(dt, paddle, canvasHeight)
PmUpdate(dt, collected) ==
    /\ \E r \in {IF collected THEN [effects |-> activeEffects, expired |-> ""]
                 ELSE UpdateEffects(activeEffects, dt, Len(activeEffects))} :
         /\ activeEffects' = r.effects
         /\ powerOp' = [op |-> "update", id |-> r.expired, duration |-> dt]

\* PowerUpManager.clear
PmClear ==
    /\ activeEffects' = <<>>
    /\ powerOp' = [op |-> "clear", id |-> "", duration |-> 0]

\* PowerUpManager.clearEffects
PmClearEffects ==
    /\ activeEffects' = <<>>
    /\ powerOp' = [op |-> "clearEffects", id |-> "", duration |-> 0]

\* PowerUpManager constructor
PowerInit ==
    /\ activeEffects = <<>>
    /\ powerOp = [op |-> "new", id |-> "", duration |-> 0]

InitPower == ScoreInit /\ BrickIdle /\ GeomIdle /\ JumpIdle /\ PowerInit /\ EntityIdle /\ LoopIdle /\ ParticleIdle /\ RespIdle /\ BusIdle /\ EffectIdle /\ GravityIdle

NextPower ==
    \/ \E type \in PowerUpTypes : PmActivate(type) /\ UNCHANGED <<coreVars, entityVars, loopVars, particleVars, respVars, busVars, effectVars, gravityVars>>
    \/ \E dt \in PowerDts, collected \in BOOLEAN :
          PmUpdate(dt, collected) /\ UNCHANGED <<coreVars, entityVars, loopVars, particleVars, respVars, busVars, effectVars, gravityVars>>
    \/ PmClear /\ UNCHANGED <<coreVars, entityVars, loopVars, particleVars, respVars, busVars, effectVars, gravityVars>>
    \/ PmClearEffects /\ UNCHANGED <<coreVars, entityVars, loopVars, particleVars, respVars, busVars, effectVars, gravityVars>>

SpecPower == InitPower /\ [][NextPower]_vars

(***************************************************************************)
(* EntityManager (src/js/core/EntityManager.js).  No caller creates a pool *)
(* (createPool is never called) and no caller passes an id or a type in    *)
(* the data of createEntity, so entities are the plain objects { type }    *)
(* with the id assigned by createEntity.                                   *)
(***************************************************************************)
\* the entity types createEntity and clear are called with; no entity of type
\* "particle" is ever created
EntityTypes == {"bubble", "platform"}
ClearTypes == EntityTypes \cup {"particle"}

\* Map.set(key, value) and Map.delete(key) on a map kept as a function
MapSet(f, key, value) == [k \in DOMAIN f \cup {key} |-> IF k = key THEN value ELSE f[k]]
MapDelete(f, key) == [k \in DOMAIN f \ {key} |-> f[k]]

\* the EntityManager fields, with the events emitted by the call in progress
EM(es, byType, nid, evs) == [entities |-> es, entitiesByType |-> byType, nextId |-> nid, events |-> evs]

\* EntityManager.createEntity
CreateEntity(em, type) ==
    LET id == em.nextId
        entity == [id |-> id, type |-> type]
        byType == IF type \in DOMAIN em.entitiesByType
                  THEN em.entitiesByType
                  ELSE MapSet(em.entitiesByType, type, {})
    IN  EM(MapSet(em.entities, id, entity),
           [byType EXCEPT ![type] = @ \cup {id}],
           id + 1,
           Append(em.events, [ev |-> "entity:created", id |-> id, type |-> type]))

\* EntityManager.destroyEntity that leaves the id in the type map
DestroyEntityKeepType(em, id) ==
    IF id \notin DOMAIN em.entities THEN em
    ELSE EM(MapDelete(em.entities, id), em.entitiesByType, em.nextId,
            Append(em.events, [ev |-> "entity:destroyed", id |-> id, type |-> em.entities[id].type]))

\* EntityManager.destroyEntity
DestroyEntity(em, id) ==
    IF id \notin DOMAIN em.entities THEN em
    ELSE LET type == em.entities[id].type
         IN  EM(MapDelete(em.entities, id),
                IF type \in DOMAIN em.entitiesByType
                THEN [em.entitiesByType EXCEPT ![type] = @ \ {id}]
                ELSE em.entitiesByType,
                em.nextId,
                Append(em.events, [ev |-> "entity:destroyed", id |-> id, type |-> type]))

\* destroyEntity for each id of a set, smallest first (the iteration order of the
\* Map and of the Sets, which hold the ids in the order they were added)
RECURSIVE DestroyAll(_, _)
DestroyAll(em, ids) ==
    IF ids = {} THEN em
    ELSE LET id == CHOOSE i \in ids : \A j \in ids : i <= j
         IN  DestroyAll(DestroyEntity(em, id), ids \ {id})

\* EntityManager.clear(type), type "" for clear()
ClearEntities(em, type) ==
    IF type # ""
    THEN IF type \in DOMAIN em.entitiesByType
         THEN DestroyAll(em, em.entitiesByType[type])
         ELSE em
    ELSE [DestroyAll(em, DOMAIN em.entities) EXCEPT !.nextId = 1]

\* the queries
Null == <<>>
GetEntity(es, id) == IF id \in DOMAIN es THEN es[id] ELSE Null
GetEntitiesByType(es, byType, type) ==
    IF type \notin DOMAIN byType THEN {}
    ELSE { es[id] : id \in byType[type] \cap DOMAIN es }
GetAllEntities(es) == { es[id] : id \in DOMAIN es }
GetCountByType(byType, type) == IF type \in DOMAIN byType THEN Cardinality(byType[type]) ELSE 0
GetTotalCount(es) == Cardinality(DOMAIN es)
HasEntity(es, id) == id \in DOMAIN es

CurEM == EM(entities, entitiesByType, nextId, <<>>)
SetEM(em) ==
    /\ entities' = em.entities
    /\ entitiesByType' = em.entitiesByType
    /\ nextId' = em.nextId
    /\ entityEvents' = em.events

\* EntityManager constructor
EntityInit ==
    /\ entities = <<>> /\ entitiesByType = <<>> /\ nextId = 1
    /\ entityEvents = <<>>
    /\ entityOp = [op |-> "new", id |-> 0, type |-> ""]
    /\ issued = {}

\* createEntity(type, data)
EmCreateEntity(type) ==
    /\ nextId <= MaxEntityId
    /\ SetEM(CreateEntity(CurEM, type))
    /\ entityOp' = [op |-> "create", id |-> nextId, type |-> type]
    /\ issued' = issued \cup {nextId}

\* destroyEntity(id)
EmDestroyEntity(id) ==
    /\ SetEM(DestroyEntity(CurEM, id))
    /\ entityOp' = [op |-> "destroy", id |-> id, type |-> ""]
    /\ UNCHANGED issued

\* clear(type)
EmClear(type) ==
    /\ SetEM(ClearEntities(CurEM, type))
    /\ entityOp' = [op |-> "clear", id |-> 0, type |-> type]
    /\ UNCHANGED issued

InitEntity == ScoreInit /\ BrickIdle /\ GeomIdle /\ JumpIdle /\ PowerIdle /\ EntityInit /\ LoopIdle /\ ParticleIdle /\ RespIdle /\ BusIdle /\ EffectIdle /\ GravityIdle

NextEntity ==
    \/ \E type \in EntityTypes : EmCreateEntity(type) /\ UNCHANGED <<coreVars, powerVars, loopVars, particleVars, respVars, busVars, effectVars, gravityVars>>
    \/ \E id \in 1..(MaxEntityId + 1) : EmDestroyEntity(id) /\ UNCHANGED <<coreVars, powerVars, loopVars, particleVars, respVars, busVars, effectVars, gravityVars>>
    \/ \E type \in ClearTypes \cup {""} : EmClear(type) /\ UNCHANGED <<coreVars, powerVars, loopVars, particleVars, respVars, busVars, effectVars, gravityVars>>

SpecEntity == InitEntity /\ [][NextEntity]_vars

(***************************************************************************)
(* Game.gameLoop (src/unnamed/part_000) and the launch intent of           *)
(* InputManager (src/js/input.js), with the game in state PLAYING.         *)
(* Time is counted in units of 1/6000 s, so that fixedTimeStep = 1/60 s is *)
(* 100 units and the 0.1 s clamp is 600 units; the rounding of the         *)
(* program's doubles is not modelled.  requestAnimationFrame passes        *)
(* timestamps that never decrease: a frame's input is the difference       *)
(* timestamp - lastTime >= 0.  Of update(dt) the frame loop models what    *)
(* handleInput does with the launch intent; the bricks' part of update is  *)
(* the action Update of Spec.                                              *)
(***************************************************************************)
\* this.fixedTimeStep = 1 / 60
FixedTimeStep == 100
\* Math.min(..., 0.1)
MaxFrameDt == 600

\* timestamp - lastTime of a rendered frame: 0, a 144 Hz, 60 Hz and 30 Hz frame,
\* just below, at and above the clamp, and a stall of one second
FrameDeltas == {0, 41, 100, 200, 599, 600, 601, 6000}

\* the fields the frame loop works on, with the dt values update was called with
\* and whether handleInput has seen the launch intent
LoopState(acc, jp, bl, ups, saw) ==
    [accumulator |-> acc, justPressed |-> jp, ballLaunched |-> bl, updates |-> ups, sawPress |-> saw]

\* Game.update(dt) -> handleInput: isLaunchPressed() launches the ball on the paddle
LoopUpdate(l, dt) ==
    [l EXCEPT !.updates = Append(@, dt),
              !.sawPress = @ \/ l.justPressed,
              !.ballLaunched = @ \/ l.justPressed]

\* the while loop of gameLoop
RECURSIVE FixedSteps(_)
FixedSteps(l) ==
    IF l.accumulator >= FixedTimeStep
    THEN FixedSteps([LoopUpdate(l, FixedTimeStep) EXCEPT !.accumulator = @ - FixedTimeStep])
    ELSE l

\* InputManager.clearFrameStates
ClearFrameStates(l) == [l EXCEPT !.justPressed = FALSE]

\* the frame delta of gameLoop without the clamp
FrameDtUnclamped(delta) == delta

\* const dt = Math.min((timestamp - this.lastTime) / 1000, 0.1)
FrameDt(delta) == Min(delta, MaxFrameDt)

\* Game.gameLoop(timestamp), delta = timestamp - lastTime
GameLoop(delta) ==
    \E dt \in {FrameDt(delta)} :
      \E l \in {ClearFrameStates(FixedSteps(
                    LoopState(accumulator + dt, mouseJustPressed, ballLaunched, <<>>, FALSE)))} :
        /\ accumulator' = l.accumulator
        /\ mouseJustPressed' = l.justPressed
        /\ ballLaunched' = l.ballLaunched
        /\ loopOp' = [op |-> "frame", dt |-> dt, updates |-> l.updates, sawPress |-> l.sawPress]

\* the mousedown / touchstart listeners of InputManager
MouseDown ==
    /\ mouseJustPressed' = TRUE
    /\ loopOp' = [op |-> "mousedown", dt |-> 0, updates |-> <<>>, sawPress |-> FALSE]
    /\ UNCHANGED <<accumulator, ballLaunched>>

\* Game.createBallOnPaddle after a lost ball: a new ball waits on the paddle
NewBallOnPaddle ==
    /\ ballLaunched
    /\ ballLaunched' = FALSE
    /\ loopOp' = [op |-> "newball", dt |-> 0, updates |-> <<>>, sawPress |-> FALSE]
    /\ UNCHANGED <<accumulator, mouseJustPressed>>

\* Game constructor and InputManager constructor
LoopInit ==
    /\ accumulator = 0 /\ mouseJustPressed = FALSE /\ ballLaunched = FALSE
    /\ loopOp = [op |-> "new", dt |-> 0, updates |-> <<>>, sawPress |-> FALSE]

InitLoop == ScoreInit /\ BrickIdle /\ GeomIdle /\ JumpIdle /\ PowerIdle /\ EntityIdle /\ LoopInit /\ ParticleIdle /\ RespIdle /\ BusIdle /\ EffectIdle /\ GravityIdle

NextLoop ==
    \/ \E delta \in FrameDeltas : GameLoop(delta) /\ UNCHANGED <<coreVars, powerVars, entityVars, particleVars, respVars, busVars, effectVars, gravityVars>>
    \/ MouseDown /\ UNCHANGED <<coreVars, powerVars, entityVars, particleVars, respVars, busVars, effectVars, gravityVars>>
    \/ NewBallOnPaddle /\ UNCHANGED <<coreVars, powerVars, entityVars, particleVars, respVars, busVars, effectVars, gravityVars>>

SpecLoop == InitLoop /\ [][NextLoop]_vars

(***************************************************************************)
(* The brick game with its screens (src/unnamed/part_000): pause, quit,    *)
(* start of a new game, life loss and game over, together with the fixed   *)
(* steps and the 100 ms timers of handleExplosion.  Bricks are touched by  *)
(* the ball only.  nextLevel is not modelled: LEVEL_COMPLETE is left by    *)
(* no action.                                                              *)
(***************************************************************************)
\* the level layouts of this specification: two EXPLOSIVE bricks side by side
FlowLevels ==
    { << LevelBrick("EXPLOSIVE", 0, 0, 0), LevelBrick("EXPLOSIVE", 1, 0, 0),
         LevelBrick("STRONG", 2, 0, 0) >>,
      << LevelBrick("NORMAL", 0, 0, 0), LevelBrick("EXPLOSIVE", 1, 0, 0),
         LevelBrick("EXPLOSIVE", 2, 0, 0) >> }

\* the rounds of fixed steps: the ball in a brick for one step, or no contact
FlowRoundInputs(bs) ==
    { <<b, NoBall, FALSE, 1>> : b \in BallInputs(bs) }
    \cup { <<NoBall, NoBall, FALSE, n>> : n \in {1, 6} }

\* the timers set so far, marked as set before a life loss or a new game
MarkOld(pend) == [k \in 1..Len(pend) |-> [pend[k] EXCEPT !.old = TRUE]]

\* a fixed step of update in which handleInput finds the pause key pressed:
\* pauseGame sets the state and handleInput returns, the rest of update runs
PauseGame ==
    /\ state = "playing"
    /\ rounds < MaxRounds
    /\ \E w \in {UpdateRest(UpdateBalls([CurWorld EXCEPT !.state = "paused"], NoBall, NoPos),
                            0, NoPos, FALSE)} :
         /\ TimersDue(w)
         /\ SetWorld(w)
    /\ rounds' = rounds + 1
    /\ ballTouched' = {}
    /\ flowOp' = "pause"
    /\ UNCHANGED lastOp

\* resumeGame (the resume button)
ResumeGame ==
    /\ state = "paused"
    /\ state' = "playing"
    /\ flowOp' = "resume"
    /\ UNCHANGED <<scoreVars, bricks, maxCombo, nextBrickExplodes, laserCooldown,
                   pendingExplosions, levelTime, rounds, outcomes, scoreCount,
                   ballTouched, lives, partyModeTimer>>

\* quitToMenu (the quit button of the pause screen)
QuitToMenu ==
    /\ state = "paused"
    /\ state' = "menu"
    /\ flowOp' = "quit"
    /\ UNCHANGED <<scoreVars, bricks, maxCombo, nextBrickExplodes, laserCooldown,
                   pendingExplosions, levelTime, rounds, outcomes, scoreCount,
                   ballTouched, lives, partyModeTimer>>

\* Game.loseLife up to its first await: lives--, and gameOver if none is left
LoseLife(w) ==
    [w EXCEPT !.lives = @ - 1,
              !.party = 0,
              !.state = IF w.lives - 1 <= 0 THEN "gameOver" ELSE @,
              !.pending = MarkOld(@)]

\* a fixed step of update in which the last ball leaves the screen
BallLost ==
    /\ state = "playing"
    /\ rounds < MaxRounds
    /\ \E w \in {UpdateRest(UpdateBalls(LoseLife(CurWorld), NoBall, NoPos), 0, NoPos, FALSE)} :
         /\ TimersDue(w)
         /\ SetWorld(w)
    /\ rounds' = rounds + 1
    /\ ballTouched' = {}
    /\ flowOp' = "loseLife"
    /\ UNCHANGED lastOp

\* startGame (the start button of the menu, the play-again button of the game
\* over screen): lives, scoreManager.reset, loadLevel(1) and setState(PLAYING).
\* The timers set before keep the brick objects of the list that is replaced.
StartGame ==
    /\ state \in {"menu", "gameOver"}
    /\ bricks' \in FlowLevels
    /\ lives' = Lives
    /\ SetSM(ResetCombo(SM(0, 0, 0, 1)))
    /\ maxCombo' = 0
    /\ levelTime' = 0
    /\ laserCooldown' = 0
    /\ state' = "playing"
    /\ pendingExplosions' = [k \in 1..Len(pendingExplosions) |->
                                [MarkOld(pendingExplosions)[k] EXCEPT !.idx = 0]]
    /\ outcomes' = <<>>
    /\ scoreCount' = [k \in 1..Len(bricks') |-> 0]
    /\ ballTouched' = {}
    /\ flowOp' = "startGame"
    /\ UNCHANGED <<nextBrickExplodes, rounds, lastOp, partyModeTimer>>

InitFlow == ScoreInit /\ LoadLevel(FlowLevels) /\ GeomIdle /\ JumpIdle /\ AuxIdle

NextFlow ==
    \/ \E in \in FlowRoundInputs(bricks) :
          Update(in[1], in[2], in[3], in[4]) /\ UNCHANGED <<geomVars, jumpVars, auxVars>>
    \/ ChainExplosion /\ UNCHANGED <<geomVars, jumpVars, auxVars>>
    \/ PauseGame /\ UNCHANGED <<geomVars, jumpVars, auxVars>>
    \/ ResumeGame /\ UNCHANGED <<geomVars, jumpVars, auxVars>>
    \/ QuitToMenu /\ UNCHANGED <<geomVars, jumpVars, auxVars>>
    \/ BallLost /\ UNCHANGED <<geomVars, jumpVars, auxVars>>
    \/ StartGame /\ UNCHANGED <<geomVars, jumpVars, auxVars>>

SpecFlow == InitFlow /\ [][NextFlow]_vars

(***************************************************************************)
(* The particle stores: the jump game's ParticleSystem                     *)
(* (src/js/systems/ParticleSystem.js) and the brick game's pooled          *)
(* ParticleSystem (src/js/utils/ObjectPool.js).                            *)
(*                                                                         *)
(* A particle is [n, lifetime]: n numbers the particles in the order they  *)
(* were requested, lifetime is the number of update calls it survives.     *)
(* The caps of the source (maxParticles 100, 50 or 25; the 200 of emit)    *)
(* are scaled down to MaxParticleCaps and PoolCap.                         *)
(***************************************************************************)
ParticleLifetimes == {1, 2}
EmitCounts == {1, 2}
MaxParticleCaps == {2, 3}

Shift(s) == IF s = <<>> THEN s ELSE Tail(s)

NewParticle(n, lifetime) == [n |-> n, lifetime |-> lifetime]

\* ParticleSystem.createParticle on the store p = [particles, maxParticles]
CreateParticle(p, n, lifetime) ==
    LET kept == IF Len(p.particles) >= p.maxParticles
                THEN Shift(p.particles)
                ELSE p.particles
    IN  [p EXCEPT !.particles = Append(kept, NewParticle(n, lifetime))]

RECURSIVE TrimParticles(_, _)
TrimParticles(ps, max) ==
    IF Len(ps) > max THEN TrimParticles(Shift(ps), max) ELSE ps

\* ParticleSystem.setMaxParticles
SetMaxParticles(p, max) ==
    [particles |-> TrimParticles(p.particles, max), maxParticles |-> max]

\* updateParticle / Particle.update: one update call off the lifetime
Aged(ps) == [i \in 1..Len(ps) |-> [ps[i] EXCEPT !.lifetime = @ - 1]]
IsAlive(q) == q.lifetime > 0

\* ParticleSystem.update: the dead particles are spliced out
UpdateParticles(ps) == SelectSeq(Aged(ps), IsAlive)

\* ObjectPool.acquire on the pool [active, free]
Acquire(pool, q) ==
    [active |-> Append(pool.active, q),
     free   |-> IF pool.free > 0 THEN pool.free - 1 ELSE 0]

\* the loop of ParticleSystem.emit from its i-th pass on; lifetimes[i] is the
\* life Math.random gives the i-th particle
RECURSIVE EmitLoop(_, _, _, _, _)
EmitLoop(pool, n, count, lifetimes, i) ==
    IF i > count \/ Len(pool.active) >= PoolCap
    THEN pool
    ELSE EmitLoop(Acquire(pool, NewParticle(n, lifetimes[i])), n + 1, count, lifetimes, i + 1)

\* pooled ParticleSystem.update: ObjectPool.release for every dead particle
PoolUpdated(pool) ==
    LET alive == UpdateParticles(pool.active)
    IN  [active |-> alive, free |-> pool.free + (Len(pool.active) - Len(alive))]

\* ObjectPool.releaseAll
ReleaseAll(pool) == [active |-> <<>>, free |-> pool.free + Len(pool.active)]

CurPS == [particles |-> particles, maxParticles |-> maxParticles]
CurPool == [active |-> poolActive, free |-> poolFree]

PsCreateParticle(lifetime) ==
    /\ nextSerial <= MaxSerial
    /\ \E p \in {CreateParticle(CurPS, nextSerial, lifetime)} :
        /\ particles' = p.particles
        /\ maxParticles' = p.maxParticles
    /\ nextSerial' = nextSerial + 1
    /\ particleOp' = [op |-> "createParticle", count |-> 1]
    /\ UNCHANGED <<poolActive, poolFree>>

PsUpdate ==
    /\ particles' = UpdateParticles(particles)
    /\ particleOp' = [op |-> "update", count |-> 0]
    /\ UNCHANGED <<maxParticles, poolActive, poolFree, nextSerial>>

PsClear ==
    /\ particles' = <<>>
    /\ particleOp' = [op |-> "clear", count |-> 0]
    /\ UNCHANGED <<maxParticles, poolActive, poolFree, nextSerial>>

PsSetMaxParticles(max) ==
    /\ \E p \in {SetMaxParticles(CurPS, max)} :
        /\ particles' = p.particles
        /\ maxParticles' = p.maxParticles
    /\ particleOp' = [op |-> "setMaxParticles", count |-> 0]
    /\ UNCHANGED <<poolActive, poolFree, nextSerial>>

PoolEmit(count, lifetimes) ==
    /\ nextSerial + count - 1 <= MaxSerial
    /\ \E pool \in {EmitLoop(CurPool, nextSerial, count, lifetimes, 1)} :
        /\ poolActive' = pool.active
        /\ poolFree' = pool.free
        /\ nextSerial' = nextSerial + (Len(pool.active) - Len(poolActive))
    /\ particleOp' = [op |-> "emit", count |-> count]
    /\ UNCHANGED <<particles, maxParticles>>

PoolUpdate ==
    /\ \E pool \in {PoolUpdated(CurPool)} :
        /\ poolActive' = pool.active
        /\ poolFree' = pool.free
    /\ particleOp' = [op |-> "poolUpdate", count |-> 0]
    /\ UNCHANGED <<particles, maxParticles, nextSerial>>

PoolClear ==
    /\ \E pool \in {ReleaseAll(CurPool)} :
        /\ poolActive' = pool.active
        /\ poolFree' = pool.free
    /\ particleOp' = [op |-> "poolClear", count |-> 0]
    /\ UNCHANGED <<particles, maxParticles, nextSerial>>

\* both constructors: no particle, the pool pre-populated up to the cap
ParticleInit ==
    /\ particles = <<>> /\ maxParticles = DefaultMaxParticles
    /\ poolActive = <<>> /\ poolFree = PoolCap
    /\ nextSerial = 1 /\ particleOp = [op |-> "new", count |-> 0]

InitParticle ==
    /\ ScoreInit /\ BrickIdle /\ GeomIdle /\ JumpIdle
    /\ PowerIdle /\ EntityIdle /\ LoopIdle /\ ParticleInit /\ RespIdle /\ BusIdle /\ EffectIdle /\ GravityIdle

NextParticle ==
    \/ \E lifetime \in ParticleLifetimes :
          PsCreateParticle(lifetime) /\ UNCHANGED <<coreVars, powerVars, entityVars, loopVars, respVars, busVars, effectVars, gravityVars>>
    \/ PsUpdate /\ UNCHANGED <<coreVars, powerVars, entityVars, loopVars, respVars, busVars, effectVars, gravityVars>>
    \/ PsClear /\ UNCHANGED <<coreVars, powerVars, entityVars, loopVars, respVars, busVars, effectVars, gravityVars>>
    \/ \E max \in MaxParticleCaps :
          PsSetMaxParticles(max) /\ UNCHANGED <<coreVars, powerVars, entityVars, loopVars, respVars, busVars, effectVars, gravityVars>>
    \/ \E count \in EmitCounts : \E lifetimes \in [1..count -> ParticleLifetimes] :
          PoolEmit(count, lifetimes) /\ UNCHANGED <<coreVars, powerVars, entityVars, loopVars, respVars, busVars, effectVars, gravityVars>>
    \/ PoolUpdate /\ UNCHANGED <<coreVars, powerVars, entityVars, loopVars, respVars, busVars, effectVars, gravityVars>>
    \/ PoolClear /\ UNCHANGED <<coreVars, powerVars, entityVars, loopVars, respVars, busVars, effectVars, gravityVars>>

SpecParticle == InitParticle /\ [][NextParticle]_vars

(***************************************************************************)
(* Physics.checkBallBrickCollision with its response (src/unnamed/part_004)*)
(* on a ball [x, y, vx, vy, isMega] of radius BallRadius and a brick at    *)
(* ProbeBrickX, ProbeBrickY.                                               *)
(***************************************************************************)
ProbeVelocities == {-3, 3}
ProbeBrickTypes == {"NORMAL", "METAL"}
ProbeBrickStates == {"intact", "destroying", "destroyed"}
\* ball centres: outside the brick, touching or overlapping each side and a
\* corner, and in the middle of the brick
RespPositions ==
    { <<46, 58>>, <<48, 58>>, <<49, 41>>, <<49, 58>>, <<78, 40>>, <<78, 58>>,
      <<78, 75>>, <<78, 77>>, <<107, 58>>, <<108, 75>>, <<110, 58>> }

ProbeBall(x, y, vx, vy, isMega) == [x |-> x, y |-> y, vx |-> vx, vy |-> vy, isMega |-> isMega]

\* the collision response: the velocity on the collision axis is reversed and
\* the ball is put 1 pixel off the side it hit
Reflect(ball, col) ==
    CASE col = "x-left"   ->
            ProbeBall(ProbeBrickX - BallRadius - 1, ball.y, -ball.vx, ball.vy, ball.isMega)
      [] col = "x-right"  ->
            ProbeBall(ProbeBrickX + BrickW + BallRadius + 1, ball.y, -ball.vx, ball.vy, ball.isMega)
      [] col = "y-top"    ->
            ProbeBall(ball.x, ProbeBrickY - BallRadius - 1, ball.vx, -ball.vy, ball.isMega)
      [] col = "y-bottom" ->
            ProbeBall(ball.x, ProbeBrickY + BrickH + BallRadius + 1, ball.vx, -ball.vy, ball.isMega)

\* checkBallBrickCollision with a mega ball passing through every brick
CheckBallBrickCollisionMegaAll(ball, type, st) ==
    LET col == CheckCollision(ball.x, ball.y, BallRadius, ProbeBrickX, ProbeBrickY,
                              st = "destroyed")
    IN  IF st # "intact" \/ col = "none" THEN [ball |-> ball, res |-> "none"]
        ELSE IF ~ball.isMega
        THEN [ball |-> Reflect(ball, col), res |-> col]
        ELSE [ball |-> ball, res |-> col]

\* checkBallBrickCollision(ball, brick): the ball after the call and the
\* collision returned ("none" for null)
CheckBallBrickCollision(ball, type, st) ==
    LET col == CheckCollision(ball.x, ball.y, BallRadius, ProbeBrickX, ProbeBrickY,
                              st = "destroyed")
    IN  IF st # "intact" \/ col = "none" THEN [ball |-> ball, res |-> "none"]
        ELSE IF ~ball.isMega \/ type = "METAL"
        THEN [ball |-> Reflect(ball, col), res |-> col]
        ELSE [ball |-> ball, res |-> col]

RespProbe(ball, type, st) ==
    LET r == CheckBallBrickCollision(ball, type, st)
    IN  [ball |-> <<ball.x, ball.y, ball.vx, ball.vy>>, isMega |-> ball.isMega,
         type |-> type, st |-> st,
         after |-> <<r.ball.x, r.ball.y, r.ball.vx, r.ball.vy>>, res |-> r.res]

RespInit == ballProbe = RespProbe(ProbeBall(78, 58, 3, 3, FALSE), "NORMAL", "intact")

CheckResp(ball, type, st) ==
    /\ ballProbe' = RespProbe(ball, type, st)
    /\ UNCHANGED <<coreVars, powerVars, entityVars, loopVars, particleVars, busVars, effectVars, gravityVars>>

InitResp ==
    /\ ScoreInit /\ BrickIdle /\ GeomIdle /\ JumpIdle
    /\ PowerIdle /\ EntityIdle /\ LoopIdle /\ ParticleIdle /\ RespInit /\ BusIdle /\ EffectIdle /\ GravityIdle

NextResp ==
    \E pos \in RespPositions, vx \in ProbeVelocities, vy \in ProbeVelocities,
       isMega \in BOOLEAN, type \in ProbeBrickTypes, st \in ProbeBrickStates :
        CheckResp(ProbeBall(pos[1], pos[2], vx, vy, isMega), type, st)

SpecResp == InitResp /\ [][NextResp]_vars

(***************************************************************************)
(* The jump game with any number of overlaps in a frame (specification     *)
(* SpecContact).  overlaps is the set of <<bubble, platform>> pairs whose   *)
(* boxes overlap when CollisionSystem.update runs.                         *)
(***************************************************************************)
\* the frame record with the contacts handled so far
ContactFrame(f) ==
    [bubbles |-> f.bubbles, platforms |-> f.platforms, events |-> f.events,
     contacts |-> <<>>]

\* CollisionSystem.update: bubbles.forEach(bubble => platforms.forEach(...)) from
\* the k-th pair on; live and plats are the two filtered arrays (made once,
\* before the loops), nb the number of bubbles at that time
RECURSIVE CollisionPass(_, _, _, _, _, _)
CollisionPass(f, live, plats, overlaps, nb, k) ==
    LET np == Len(f.platforms)
        b == (k \div np) + 1
        p == (k % np) + 1
    IN  IF np = 0 \/ k >= nb * np THEN f
        ELSE IF /\ b \in live /\ p \in plats
                /\ CheckBubblePlatformCollision(f.bubbles[b], <<b, p>> \in overlaps)
        THEN CollisionPass(
                 [HandleBubblePlatformCollision(f, b, p) EXCEPT
                     !.contacts = Append(@, Contact(b, p, f.bubbles[b].vy,
                                                    { q \in 1..np : <<b, q>> \in overlaps }))],
                 live, plats, overlaps, nb, k + 1)
        ELSE CollisionPass(f, live, plats, overlaps, nb, k + 1)

\* CollisionSystem.update(entities)
CollisionSystemUpdate(f, overlaps) ==
    CollisionPass(f,
                  { b \in 1..Len(f.bubbles) : ~f.bubbles[b].isDead },
                  { p \in 1..Len(f.platforms) : ~f.platforms[p].markedForDeletion },
                  overlaps, Len(f.bubbles), 0)

\* the platforms of the model
ContactPlatforms ==
    << CreatePlatform("breaking"), CreatePlatform("rainbow"), CreatePlatform("normal") >>

\* the sets of overlapping pairs a frame is given: none, one or two pairs
OverlapInputs(nb, np) ==
    LET pairs == (1..nb) \X (1..np)
    IN  {{}} \cup { {a} : a \in pairs } \cup { {a, c} : a \in pairs, c \in pairs }

\* Game.loop while PLAYING with the overlaps given
LoopContacts(jump, deltaTime, overlaps, fallen) ==
    /\ jumpState = "playing"
    /\ fallen <= Len(bubbles)
    /\ \E f0 \in {ContactFrame(Frame(bubbles, platforms, <<>>))} :
       \E f1 \in {PhysicsUpdate(IF jump THEN HandleJump(f0) ELSE f0, deltaTime)} :
       \E f2 \in {CleanupPlatforms(CheckBubbleDeath(CollisionSystemUpdate(f1, overlaps), fallen))} :
          /\ Len(f2.bubbles) <= MaxContactBubbles
          /\ bubbles' = f2.bubbles
          /\ platforms' = f2.platforms
          /\ jumpEvents' = f2.events
          /\ jumpContacts' = f2.contacts
          /\ jumpState' = IF \A k \in 1..Len(f2.bubbles) : f2.bubbles[k].isDead
                          THEN "gameOver" ELSE "playing"
    /\ UNCHANGED <<scoreVars, brickVars, geomVars, auxVars>>

ContactInit ==
    /\ bubbles = <<CreateBubble(FALSE)>>
    /\ platforms = ContactPlatforms
    /\ jumpState = "playing"
    /\ jumpEvents = <<>>
    /\ jumpContacts = <<>>

InitContact == ScoreInit /\ BrickIdle /\ GeomIdle /\ ContactInit /\ AuxIdle

\* what a frame is given: a jump, overlaps or a fallen bubble
NextContact ==
    \/ \E jump \in BOOLEAN, deltaTime \in DeltaTimes :
          LoopContacts(jump, deltaTime, {}, 0)
    \/ \E deltaTime \in DeltaTimes :
          \E overlaps \in OverlapInputs(Len(bubbles), Len(platforms)) :
            LoopContacts(FALSE, deltaTime, overlaps, 0)
    \/ \E deltaTime \in DeltaTimes, fallen \in 1..MaxContactBubbles :
          LoopContacts(FALSE, deltaTime, {}, fallen)

SpecContact == InitContact /\ [][NextContact]_vars

(***************************************************************************)
(* The brick game with the bricks that drop power-ups, arm party mode,     *)
(* teleport or duplicate (POWER, SUPER_POWERUP, hidden power-ups, MOVING,  *)
(* MIRROR) and the 5 % drop of the other bricks                            *)
(***************************************************************************)
\* PhysicsSystem.assignRandomPowerUps gives a brick that is neither METAL nor
\* POWER a hidden power-up
HiddenBrick(type, col, row, extraHits) ==
    SetHiddenPowerUp(LevelBrick(type, col, row, extraHits))

SpecialLevels ==
    { << LevelBrick("EXPLOSIVE", 0, 0, 0), LevelBrick("POWER", 1, 0, 0),
         LevelBrick("SUPER_POWERUP", 4, 2, 0), LevelBrick("EXPLOSIVE", 2, 0, 0) >>,
      << HiddenBrick("MIRROR", 0, 0, 0), HiddenBrick("NORMAL", 6, 3, 0) >>,
      << LevelBrick("MOVING", 4, 2, 0), LevelBrick("MIRROR", 0, 0, 1) >> }

SpecialRoundInputs(bs, cd) ==
    { <<b, NoBall, FALSE, 1>> : b \in BallInputs(bs) }
    \cup { <<NoBall, l, FALSE, 1>> : l \in LaserInputs(bs, cd) }
    \cup { <<NoBall, NoBall, FALSE, n>> : n \in IdleSteps }

\* a round in which Math.random() < 0.05 holds in handleBrickHit
UpdateLucky(ballPos, laserPos, bomb, n) ==
    UpdateFrom([CurWorld EXCEPT !.luck = TRUE], ballPos, laserPos, bomb, n)

InitSpecial == ScoreInit /\ LoadLevel(SpecialLevels) /\ GeomIdle /\ JumpIdle /\ AuxIdle

NextSpecial ==
    \/ \E in \in SpecialRoundInputs(bricks, laserCooldown) :
          Update(in[1], in[2], in[3], in[4]) /\ UNCHANGED <<geomVars, jumpVars, auxVars>>
    \/ \E b \in BallInputs(bricks) :
          UpdateLucky(b, NoBall, FALSE, 1) /\ UNCHANGED <<geomVars, jumpVars, auxVars>>
    \/ ChainExplosion /\ UNCHANGED <<geomVars, jumpVars, auxVars>>

SpecSpecial == InitSpecial /\ [][NextSpecial]_vars

(***************************************************************************)
(* EventBus (src/js/core/EventBus.js), one event.  A callback is a record  *)
(* [id, act, target]: id stands for the function object, act is what the   *)
(* function does when it is called:                                        *)
(*   "none"   nothing                                                      *)
(*   "throw"  throws                                                       *)
(*   "emit"   emits the event again, the first time it is called           *)
(*   "off"    unsubscribes the callback target (itself or another one)     *)
(* JavaScript runs an emit and every listener it calls to completion, so   *)
(* emit is one operator on the record b of the bus's fields and a log of   *)
(* the calls made: <<id, depth>>, depth 0 for the emit the program made.   *)
(***************************************************************************)
MaxCallbacks == 3
CallbackActs == {"none", "throw", "emit", "off"}

Callback(id, act, target) == [id |-> id, act |-> act, target |-> target]

Bus(ls, once, re, onceCalls, calls) ==
    [ls |-> ls, once |-> once, re |-> re, onceCalls |-> onceCalls, calls |-> calls]

\* callbacks.indexOf(callback): the first index of the function id, 0 for -1
RECURSIVE IndexOf(_, _, _)
IndexOf(ls, id, k) ==
    IF k > Len(ls) THEN 0
    ELSE IF ls[k].id = id THEN k
    ELSE IndexOf(ls, id, k + 1)

\* EventBus.off(event, callback)
Off(ls, id) ==
    IF IndexOf(ls, id, 1) > 0 THEN Splice(ls, IndexOf(ls, id, 1)) ELSE ls

\* EventBus.on(event, callback)
On(ls, cb) == Append(ls, cb)

\* EventBus.once(event, callback)
Once(once, cb) == Append(once, cb)

\* emit: this.onceListeners.delete(event), left out
DeleteOnceListenersNot(b) == b
\* emit: this.onceListeners.delete(event)
DeleteOnceListeners(b) == [b EXCEPT !.once = <<>>]

RECURSIVE EmitEvent(_, _)
RECURSIVE CallListener(_, _, _)
RECURSIVE ForEachListener(_, _, _, _)
RECURSIVE ForEachOnce(_, _, _, _)

\* callback(data) for callback cb, called by the emit of depth d: the bus after
\* the call and whether the call threw
CallListener(b, cb, d) ==
    The({ CASE cb.act = "none" -> [bus |-> b1, threw |-> FALSE]
            [] cb.act = "throw" -> [bus |-> b1, threw |-> TRUE]
            [] cb.act = "off" ->
                 [bus |-> [b1 EXCEPT !.ls = Off(@, cb.target)], threw |-> FALSE]
            [] cb.act = "emit" ->
                 [bus |-> IF cb.id \in b1.re THEN b1
                          ELSE EmitEvent([b1 EXCEPT !.re = @ \cup {cb.id}], d + 1),
                  threw |-> FALSE]
          : b1 \in {[b EXCEPT !.calls = Append(@, <<cb.id, d>>)]} })

\* this.listeners.get(event).forEach(callback => try { callback(data) } catch ..):
\* Array.prototype.forEach visits the indexes below the length the array had
\* when it started, reads the array as it is when the index is reached and
\* skips an index that is no longer in it; the catch swallows what was thrown
ForEachListener(b, k, len, d) ==
    IF k > len THEN b
    ELSE IF k > Len(b.ls) THEN ForEachListener(b, k + 1, len, d)
    ELSE The({ ForEachListener(r.bus, k + 1, len, d) : r \in {CallListener(b, b.ls[k], d)} })

\* onceCallbacks.forEach(..): the array taken out of the map is changed by no one
ForEachOnce(b, onceCallbacks, k, d) ==
    IF k > Len(onceCallbacks) THEN b
    ELSE The({ ForEachOnce(r.bus, onceCallbacks, k + 1, d)
               : r \in { CallListener([b EXCEPT !.onceCalls[onceCallbacks[k].id] = @ + 1],
                                      onceCallbacks[k], d) } })

\* EventBus.emit(event, data) at call depth d
EmitEvent(b, d) ==
    The({ ForEachOnce(DeleteOnceListeners(b1), b1.once, 1, d)
          : b1 \in {ForEachListener(b, 1, Len(b.ls), d)} })

CurBus == Bus(busListeners, busOnce, busReentered, busOnceCalls, <<>>)

SetBus(b) ==
    /\ busListeners' = b.ls
    /\ busOnce' = b.once
    /\ busReentered' = b.re
    /\ busOnceCalls' = b.onceCalls

\* the callbacks the model subscribes: what a new callback does, and whom it
\* unsubscribes (itself or the first callback subscribed)
CallbackInputs(id) ==
    { Callback(id, act, 0) : act \in CallbackActs \ {"off"} }
    \cup { Callback(id, "off", t) : t \in {1, id} }

BusOn(cb) ==
    /\ nextCallback <= MaxCallbacks
    /\ busListeners' = On(busListeners, cb)
    /\ nextCallback' = nextCallback + 1
    /\ busOp' = [op |-> "on", id |-> cb.id]
    /\ UNCHANGED <<busOnce, busReentered, busOnceCalls>>

BusOnce(cb) ==
    /\ nextCallback <= MaxCallbacks
    /\ busOnce' = Once(busOnce, cb)
    /\ busOnceCalls' = MapSet(busOnceCalls, cb.id, 0)
    /\ nextCallback' = nextCallback + 1
    /\ busOp' = [op |-> "once", id |-> cb.id]
    /\ UNCHANGED <<busListeners, busReentered>>

\* the function returned by on, or off, called by the program outside an emit
BusOff(id) ==
    /\ busListeners' = Off(busListeners, id)
    /\ busOp' = [op |-> "off", id |-> id]
    /\ UNCHANGED <<busOnce, busReentered, busOnceCalls, nextCallback>>

\* emit called by the program; start and startOnce are the callbacks subscribed
\* when it starts
BusEmit ==
    /\ \E b \in {EmitEvent(CurBus, 0)} :
         /\ SetBus(b)
         /\ busOp' = [op |-> "emit", start |-> busListeners, startOnce |-> busOnce,
                      calls |-> b.calls]
    /\ UNCHANGED nextCallback

BusInit ==
    /\ busListeners = <<>> /\ busOnce = <<>> /\ busReentered = {} /\ busOnceCalls = <<>>
    /\ nextCallback = 1 /\ busOp = [op |-> "init"]

InitBus ==
    /\ ScoreInit /\ BrickIdle /\ GeomIdle /\ JumpIdle
    /\ PowerIdle /\ EntityIdle /\ LoopIdle /\ ParticleIdle /\ RespIdle /\ BusInit /\ EffectIdle /\ GravityIdle

NextBus ==
    \/ \E cb \in CallbackInputs(nextCallback) :
          BusOn(cb) /\ UNCHANGED <<coreVars, powerVars, entityVars, loopVars, particleVars, respVars, effectVars, gravityVars>>
    \/ \E cb \in CallbackInputs(nextCallback) :
          BusOnce(cb) /\ UNCHANGED <<coreVars, powerVars, entityVars, loopVars, particleVars, respVars, effectVars, gravityVars>>
    \/ \E id \in 1..MaxCallbacks :
          BusOff(id) /\ UNCHANGED <<coreVars, powerVars, entityVars, loopVars, particleVars, respVars, effectVars, gravityVars>>
    \/ BusEmit /\ UNCHANGED <<coreVars, powerVars, entityVars, loopVars, particleVars, respVars, effectVars, gravityVars>>

SpecBus == InitBus /\ [][NextBus]_vars

(***************************************************************************)
(* The brick game's lives: life loss, extra life, level completion and     *)
(* nextLevel, with levels of one destructible brick                        *)
(***************************************************************************)
\* Game.maxLives
MaxLives == 5

LivesLevels ==
    { << LevelBrick("NORMAL", 0, 0, 0) >>,
      << LevelBrick("STRONG", 0, 0, 0), LevelBrick("METAL", 1, 0, 0) >> }

LivesRoundInputs(bs) ==
    { <<b, NoBall, FALSE, 1>> : b \in BallInputs(bs) }
    \cup { <<NoBall, NoBall, FALSE, n>> : n \in {1, 11} }

\* a fixed step in which updatePowerUps collects an Extra Life power-up:
\* applyPowerUp, case 'life'
CollectLife ==
    UpdateFrom([CurWorld EXCEPT !.lives = Min(@ + 1, MaxLives)], NoBall, NoBall, FALSE, 1)

\* nextLevel (the button of the level-complete screen): loadLevel(level + 1) and
\* setState(PLAYING).  The timers set before keep the brick objects of the list
\* that is replaced.
NextLevel ==
    /\ state = "levelComplete"
    /\ bricks' \in LivesLevels
    /\ SetSM(ResetCombo(CurSM))
    /\ levelTime' = 0
    /\ laserCooldown' = 0
    /\ state' = "playing"
    /\ pendingExplosions' = [k \in 1..Len(pendingExplosions) |->
                                [MarkOld(pendingExplosions)[k] EXCEPT !.idx = 0]]
    /\ outcomes' = <<>>
    /\ scoreCount' = [k \in 1..Len(bricks') |-> 0]
    /\ ballTouched' = {}
    /\ flowOp' = "nextLevel"
    /\ UNCHANGED <<nextBrickExplodes, rounds, lastOp, partyModeTimer, lives, maxCombo>>

InitLives == ScoreInit /\ LoadLevel(LivesLevels) /\ GeomIdle /\ JumpIdle /\ AuxIdle

NextLives ==
    \/ \E in \in LivesRoundInputs(bricks) :
          Update(in[1], in[2], in[3], in[4]) /\ UNCHANGED <<geomVars, jumpVars, auxVars>>
    \/ BallLost /\ UNCHANGED <<geomVars, jumpVars, auxVars>>
    \/ CollectLife /\ UNCHANGED <<geomVars, jumpVars, auxVars>>
    \/ NextLevel /\ UNCHANGED <<geomVars, jumpVars, auxVars>>

SpecLives == InitLives /\ [][NextLives]_vars

(***************************************************************************)
(* The brick game's power-up effects (src/unnamed/part_000 applyPowerUp,   *)
(* removePowerUpEffect, updatePowerUps, loseLife, loadLevel, startGame;    *)
(* src/js/entities/Paddle.js; src/js/systems/PowerUpManager.js).  Bricks   *)
(* and balls are not modelled: that a hit drops a power-up, destroys the   *)
(* SUPER_POWERUP brick, clears the level or that the last ball is lost are *)
(* inputs of the fixed step.  Times are in seconds, and update is called   *)
(* with dt = EffectDt.  partyModeTimer is kept in fixed steps of 1/60 s.   *)
(***************************************************************************)
\* the canvas is 400 x 600: paddleWidth = max(60, min(120, 80 * scaleFactor))
BasePaddleWidth == 80
\* Paddle.minWidth, Paddle.maxWidth
MinWidth == 40
MaxWidth == 150
\* the amount applyPowerUp and removePowerUpEffect extend and shrink by
WidthAmount == 30
\* autoBurstBallsRemaining set by applyPowerUp
AutoBurstBalls == 10
\* the dt update is called with, in seconds
EffectDt == 5
\* falling power-ups beyond this number are not spawned
MaxFalling == 1

\* the power-up types collected: those that act on the paddle width and the
\* score multiplier
EffectTypes ==
    { [id |-> "extend",     duration |-> 15],
      [id |-> "shrink",     duration |-> 10],
      [id |-> "multiplier", duration |-> 15] }

\* Paddle.extend(amount), Paddle.shrink(amount)
PaddleExtend(width, amount) == Min(width + amount, MaxWidth)
PaddleShrink(width, amount) == Max(width - amount, MinWidth)

\* the part of the Game the effects live in; burst is autoBurstBallsRemaining
\* (autoBurstActive is that it is > 0), party is partyModeTimer in fixed steps
CurFx ==
    [effects |-> activeEffects, width |-> paddleWidth, falling |-> powerUps,
     mult |-> multiplier, nbe |-> nextBrickExplodes, party |-> partyModeTimer,
     burst |-> autoBurstBallsRemaining, lives |-> lives, state |-> state]

SetFx(g) ==
    /\ activeEffects' = g.effects
    /\ paddleWidth' = g.width
    /\ powerUps' = g.falling
    /\ multiplier' = g.mult
    /\ nextBrickExplodes' = g.nbe
    /\ partyModeTimer' = g.party
    /\ autoBurstBallsRemaining' = g.burst
    /\ lives' = g.lives
    /\ state' = g.state

\* Game.applyPowerUp(type)
ApplyPowerUp(g, type) ==
    LET g1 == [g EXCEPT !.effects = Activate(@, type)]
    IN  CASE type.id = "extend" -> [g1 EXCEPT !.width = PaddleExtend(@, WidthAmount)]
          [] type.id = "shrink" -> [g1 EXCEPT !.width = PaddleShrink(@, WidthAmount)]
          [] type.id = "multiplier" -> [g1 EXCEPT !.mult = 2]
          [] type.id = "autoburst" -> [g1 EXCEPT !.burst = AutoBurstBalls]
          [] type.id = "explosive" -> [g1 EXCEPT !.nbe = TRUE]
          [] OTHER -> g1

\* Game.removePowerUpEffect(type)
RemovePowerUpEffect(g, id) ==
    CASE id = "extend" -> [g EXCEPT !.width = PaddleShrink(@, WidthAmount)]
      [] id = "shrink" -> [g EXCEPT !.width = PaddleExtend(@, WidthAmount)]
      [] id = "multiplier" -> [g EXCEPT !.mult = 1]
      [] OTHER -> g

\* Game.updatePowerUps(dt): powerUpManager.update returns at the power-up that
\* reaches the paddle (collect is its type), otherwise at the first effect
\* that runs out
UpdatePowerUps(g, collect) ==
    IF collect # <<>>
    THEN ApplyPowerUp([g EXCEPT !.falling = @ - 1], collect)
    ELSE LET r == UpdateEffects(g.effects, EffectDt, Len(g.effects))
         IN  RemovePowerUpEffect([g EXCEPT !.effects = r.effects], r.expired)

\* Game.update, the party mode timer
UpdateParty(g) == [g EXCEPT !.party = Max(0, @ - EffectDt * 60)]

\* Game.updateBalls, the AUTO_BURST balls: one ball in a call once a second has
\* passed
UpdateAutoBurst(g) == [g EXCEPT !.burst = Max(0, @ - 1)]

\* Game.loseLife
FxLoseLife(g) ==
    IF g.lives - 1 <= 0
    THEN [g EXCEPT !.lives = @ - 1, !.party = 0, !.state = "gameOver"]
    ELSE [g EXCEPT !.lives = @ - 1, !.party = 0, !.effects = <<>>,
                   !.width = BasePaddleWidth]

\* Game.levelComplete
FxLevelComplete(g) == [g EXCEPT !.party = 0, !.state = "levelComplete"]

\* Game.loadLevel: a new Paddle, powerUpManager.clear, scoreManager.resetCombo
FxLoadLevel(g) == [g EXCEPT !.width = BasePaddleWidth, !.falling = 0, !.effects = <<>>]

\* Game.startGame: scoreManager.reset, powerUpManager.clear, loadLevel(1)
FxStartGame(g) ==
    [FxLoadLevel([g EXCEPT !.lives = Lives, !.mult = 1, !.falling = 0, !.effects = <<>>])
        EXCEPT !.state = "playing"]

\* handleBrickHit as far as the effects go: the pending Bomb Ball is consumed,
\* the brick drops a power-up (drop), it is the SUPER_POWERUP brick (super)
FxBrickHit(g, drop, super) ==
    [g EXCEPT !.nbe = FALSE,
              !.falling = IF drop /\ @ < MaxFalling THEN @ + 1 ELSE @,
              !.party = IF super THEN PartySteps ELSE @]

\* the events of a fixed step: a brick hit (or none), the last ball lost, the
\* type of the power-up reaching the paddle (or none), the level cleared;
\* types are the power-up types that fall, supers whether the level has the
\* SUPER_POWERUP brick.  The step that both loses the last ball and clears
\* the level belongs to SpecLives.
EffectStepInputs(g, types, supers) ==
    { in \in { [hit |-> h, lost |-> l, collect |-> c, cleared |-> d] :
        h \in {<<>>} \cup { <<drop, super>> : drop \in BOOLEAN, super \in supers },
        l \in BOOLEAN,
        c \in {<<>>} \cup (IF g.falling > 0 THEN types ELSE {}),
        d \in BOOLEAN } : ~(in.lost /\ in.cleared) }

\* Game.update(dt) in the state PLAYING
FxUpdateFrom(g, in) ==
    LET g1 == UpdateAutoBurst(UpdateParty(g))
        g2 == IF in.hit = <<>> THEN g1 ELSE FxBrickHit(g1, in.hit[1], in.hit[2])
        g3 == IF in.lost THEN FxLoseLife(g2) ELSE g2
        g4 == UpdatePowerUps(g3, IF g3.falling > 0 THEN in.collect ELSE <<>>)
    IN  IF in.cleared THEN FxLevelComplete(g4) ELSE g4

FxUpdate(types, supers) ==
    /\ state = "playing"
    /\ \E in \in EffectStepInputs(CurFx, types, supers) :
         /\ SetFx(FxUpdateFrom(CurFx, in))
         /\ effectOp' = [op |-> "update", collect |-> in.collect # <<>>, lost |-> in.lost]
    /\ flowOp' = "update"

\* pauseGame, resumeGame, quitToMenu
FxPause ==
    /\ state = "playing"
    /\ SetFx([CurFx EXCEPT !.state = "paused"])
    /\ effectOp' = [op |-> "pause"]
    /\ flowOp' = "pause"

FxResume ==
    /\ state = "paused"
    /\ SetFx([CurFx EXCEPT !.state = "playing"])
    /\ effectOp' = [op |-> "resume"]
    /\ flowOp' = "resume"

FxQuit ==
    /\ state = "paused"
    /\ SetFx([CurFx EXCEPT !.state = "menu"])
    /\ effectOp' = [op |-> "quit"]
    /\ flowOp' = "quit"

\* nextLevel (the button of the level complete screen)
FxNextLevel ==
    /\ state = "levelComplete"
    /\ SetFx([FxLoadLevel(CurFx) EXCEPT !.state = "playing"])
    /\ effectOp' = [op |-> "nextLevel"]
    /\ flowOp' = "nextLevel"

\* startGame (the start button of the menu, the play-again button)
FxStart ==
    /\ state \in {"menu", "gameOver"}
    /\ SetFx(FxStartGame(CurFx))
    /\ effectOp' = [op |-> "startGame"]
    /\ flowOp' = "startGame"

\* the Game after its constructor: no paddle yet
EffectInit ==
    /\ bricks = <<>> /\ nextBrickExplodes = FALSE /\ laserCooldown = 0
    /\ pendingExplosions = <<>>
    /\ maxCombo = 0 /\ levelTime = 0 /\ state = "menu" /\ rounds = 0
    /\ outcomes = <<>> /\ scoreCount = <<>> /\ ballTouched = {}
    /\ lives = Lives /\ flowOp = "" /\ partyModeTimer = 0
    /\ activeEffects = <<>> /\ powerOp = <<>>
    /\ paddleWidth = 0 /\ powerUps = 0 /\ autoBurstBallsRemaining = 0 /\ effectOp = [op |-> "new"]

InitEffects ==
    /\ ScoreInit /\ EffectInit /\ GeomIdle /\ JumpIdle
    /\ EntityIdle /\ LoopIdle /\ ParticleIdle /\ RespIdle /\ BusIdle /\ GravityIdle

effectRest ==
    <<score, combo, comboTimer, lastOp, bricks, maxCombo, laserCooldown, pendingExplosions,
      levelTime, rounds, outcomes, scoreCount, ballTouched, powerOp,
      geomVars, jumpVars, entityVars, loopVars, particleVars, respVars, busVars, gravityVars>>

NextEffects ==
    \/ FxUpdate(EffectTypes, {FALSE}) /\ UNCHANGED effectRest
    \/ FxPause /\ UNCHANGED effectRest
    \/ FxResume /\ UNCHANGED effectRest
    \/ FxQuit /\ UNCHANGED effectRest
    \/ FxNextLevel /\ UNCHANGED effectRest
    \/ FxStart /\ UNCHANGED effectRest

SpecEffects == InitEffects /\ [][NextEffects]_vars

(***************************************************************************)
(* The same handlers with the power-ups and the brick that set the special *)
(* states of the Game: Bomb Ball, Auto Burst, the score multiplier and the *)
(* SUPER_POWERUP brick's party mode.                                       *)
(***************************************************************************)
RestartTypes ==
    { [id |-> "multiplier", duration |-> 15],
      [id |-> "autoburst",  duration |-> 10],
      [id |-> "explosive",  duration |-> 0] }

NextRestart ==
    \/ FxUpdate(RestartTypes, BOOLEAN) /\ UNCHANGED effectRest
    \/ FxPause /\ UNCHANGED effectRest
    \/ FxResume /\ UNCHANGED effectRest
    \/ FxQuit /\ UNCHANGED effectRest
    \/ FxNextLevel /\ UNCHANGED effectRest
    \/ FxStart /\ UNCHANGED effectRest

SpecRestart == InitEffects /\ [][NextRestart]_vars

(***************************************************************************)
(* Reverse gravity of the jump game (src/js/game.js listener of            *)
(* 'gravity:reverse', src/js/systems/PhysicsSystem.js updateBubble and     *)
(* applyReverseGravity, src/js/systems/CollisionSystem.js).  The platform  *)
(* is a reverse platform; which bubbles overlap it in a frame is an input. *)
(* A bubble's id is its index in bubbles.  Timer time is in units of       *)
(* 1000 ms: a timeout carries the time left until it is due, the timeouts  *)
(* that are due run in the order they were set, and they run before the    *)
(* next frame.  A timer handle is the smallest number no pending timeout   *)
(* has.                                                                    *)
(***************************************************************************)
\* physics.reverseGravityDuration (3000 ms)
ReverseGravityDuration == 3
\* the number of bubbles of this specification
GravityBubbles == 2
\* no frame is taken that would leave more timeouts pending than this
MaxTimeouts == 6

\* setTimeout: the handle given to the next timeout
NewHandle(ts) == CHOOSE n \in 1..(Len(ts) + 1) : \A k \in 1..Len(ts) : ts[k].handle # n

\* clearTimeout(handle)
ClearTimeout(ts, handle) == SelectSeq(ts, LAMBDA t : t.handle # handle)

\* the bubbles, the PhysicsSystem fields, the bubbles' flags, the timeouts, and
\* the bubbles handleReverseCollision was called for in the frame in progress
Gravity0(bs, ents, tms, flags, ts) ==
    [bubbles |-> bs, entities |-> ents, timers |-> tms, flags |-> flags, timeouts |-> ts,
     contacts |-> {}]

\* PhysicsSystem.updateBubble, vertical velocity: gravity in the direction of
\* the bubble's gravity, then the clamp
UpdateBubbleDir(bubble, deltaTime, reversed) ==
    LET gravityDir == IF reversed THEN -1 ELSE 1
        v == bubble.vy + Gravity * gravityDir * deltaTime
    IN  [bubble EXCEPT !.vy = IF Abs(v) > MaxFallSpeed THEN Sign(v) * MaxFallSpeed ELSE v]

\* PhysicsSystem.applyReverseGravity(bubbleId, duration)
ApplyReverseGravity(g, bubbleId, duration) ==
    LET ts == IF bubbleId \in DOMAIN g.timers
              THEN ClearTimeout(g.timeouts, g.timers[bubbleId])
              ELSE g.timeouts
        h == NewHandle(ts)
    IN  [g EXCEPT !.entities = @ \cup {bubbleId},
                  !.timeouts = Append(ts, [handle |-> h, owner |-> "physics",
                                           bubble |-> bubbleId, remaining |-> duration]),
                  !.timers = MapSet(@, bubbleId, h)]

\* the Game's listener of 'gravity:reverse'
OnGravityReverse(g, bubbleId, duration) ==
    LET g1 == ApplyReverseGravity(g, bubbleId, duration)
    IN  [g1 EXCEPT !.flags[bubbleId] = TRUE,
                   !.timeouts = Append(@, [handle |-> NewHandle(g1.timeouts), owner |-> "game",
                                           bubble |-> bubbleId, remaining |-> duration])]

\* CollisionSystem.handleReverseCollision(bubble, platform)
HandleReverseCollision(g, b) ==
    OnGravityReverse([g EXCEPT !.bubbles[b].vy = JumpStrength, !.contacts = @ \cup {b}],
                     b, ReverseGravityDuration)

\* CollisionSystem.update: the bubbles from b on, over the bubbles overlapping
\* the platform
RECURSIVE GravityCollisions(_, _, _)
GravityCollisions(g, overlaps, b) ==
    IF b > Len(g.bubbles) THEN g
    ELSE IF CheckBubblePlatformCollision(g.bubbles[b], b \in overlaps)
    THEN GravityCollisions(HandleReverseCollision(g, b), overlaps, b + 1)
    ELSE GravityCollisions(g, overlaps, b + 1)

\* Game.loop while PLAYING: jump, physics, collisions
GravityLoop(g, jump, deltaTime, overlaps) ==
    LET g1 == IF jump
              THEN [g EXCEPT !.bubbles = [b \in 1..Len(@) |-> [@[b] EXCEPT !.vy = JumpStrength]]]
              ELSE g
        g2 == [g1 EXCEPT !.bubbles = [b \in 1..Len(@) |->
                             UpdateBubbleDir(@[b], deltaTime, b \in g1.entities)]]
    IN  GravityCollisions(g2, overlaps, 1)

\* the callback of a timeout
RunTimeout(g, t) ==
    IF t.owner = "physics"
    THEN [g EXCEPT !.entities = @ \ {t.bubble}, !.timers = MapDelete(@, t.bubble)]
    ELSE [g EXCEPT !.flags[t.bubble] = FALSE]

CurGravity ==
    Gravity0(bubbles, reverseGravityEntities, reverseGravityTimers, hasReverseGravity, timeouts)

SetGravity(g) ==
    /\ bubbles' = g.bubbles
    /\ reverseGravityEntities' = g.entities
    /\ reverseGravityTimers' = g.timers
    /\ hasReverseGravity' = g.flags
    /\ timeouts' = g.timeouts

\* index of the first timeout that is due, 0 if none
RECURSIVE FirstDue(_, _)
FirstDue(ts, k) ==
    IF k > Len(ts) THEN 0
    ELSE IF ts[k].remaining <= 0 THEN k
    ELSE FirstDue(ts, k + 1)

\* a frame of the loop
GravityFrame(jump, deltaTime, overlaps) ==
    /\ FirstDue(timeouts, 1) = 0
    /\ \E g \in {GravityLoop(CurGravity, jump, deltaTime, overlaps)} :
         /\ Len(g.timeouts) <= MaxTimeouts
         /\ SetGravity(g)
         /\ gravityOp' = [op |-> "frame", contacts |-> g.contacts]

\* the timeout that is due first runs
TimeoutFires ==
    /\ FirstDue(timeouts, 1) # 0
    /\ \E k \in {FirstDue(timeouts, 1)} :
         /\ SetGravity(RunTimeout([CurGravity EXCEPT !.timeouts = Splice(@, k)], timeouts[k]))
         /\ gravityOp' = [op |-> "timeout", contacts |-> {}]

\* 1000 ms pass
TimePasses ==
    /\ timeouts # <<>>
    /\ FirstDue(timeouts, 1) = 0
    /\ timeouts' = [k \in 1..Len(timeouts) |-> [timeouts[k] EXCEPT !.remaining = @ - 1]]
    /\ gravityOp' = [op |-> "time", contacts |-> {}]
    /\ UNCHANGED <<bubbles, reverseGravityEntities, reverseGravityTimers, hasReverseGravity>>

\* the bubbles after createBubble, the PhysicsSystem after its constructor
GravityInit ==
    /\ bubbles = [b \in 1..GravityBubbles |-> CreateBubble(b > 1)]
    /\ platforms = <<CreatePlatform("reverse")>>
    /\ jumpState = "playing"
    /\ jumpEvents = <<>>
    /\ jumpContacts = <<>>
    /\ reverseGravityEntities = {}
    /\ reverseGravityTimers = <<>>
    /\ hasReverseGravity = [b \in 1..GravityBubbles |-> FALSE]
    /\ timeouts = <<>>
    /\ gravityOp = [op |-> "new", contacts |-> {}]

InitGravity ==
    /\ ScoreInit /\ BrickIdle /\ GeomIdle
    /\ PowerIdle /\ EntityIdle /\ LoopIdle /\ ParticleIdle /\ RespIdle /\ BusIdle /\ EffectIdle
    /\ GravityInit

gravityRest ==
    <<scoreVars, brickVars, geomVars, platforms, jumpState, jumpEvents, jumpContacts,
      powerVars, entityVars, loopVars, particleVars, respVars, busVars, effectVars>>

NextGravity ==
    \/ \E jump \in BOOLEAN, deltaTime \in DeltaTimes, overlaps \in SUBSET (1..GravityBubbles) :
          GravityFrame(jump, deltaTime, overlaps) /\ UNCHANGED gravityRest
    \/ TimeoutFires /\ UNCHANGED gravityRest
    \/ TimePasses /\ UNCHANGED gravityRest

SpecGravity == InitGravity /\ [][NextGravity]_vars

(***************************************************************************)
(* MOVING and MIRROR bricks together (src/unnamed/part_000                 *)
(* findEmptyBrickPosition, createMirrorClone; src/js/entities/Brick.js     *)
(* update): a level in which one of the positions findEmptyBrickPosition   *)
(* draws from is open to both bricks.                                      *)
(***************************************************************************)
MoveLevels ==
    { << LevelBrick("MOVING", 4, 2, 0), LevelBrick("MIRROR", 6, 0, 0) >>,
      << LevelBrick("MOVING", 4, 2, 0), LevelBrick("NORMAL", 6, 0, 0) >> }

\* the rounds of fixed steps: the ball in a brick for one step, or no contact
MoveRoundInputs(bs) ==
    { <<b, NoBall, FALSE, 1>> : b \in BallInputs(bs) }
    \cup { <<NoBall, NoBall, FALSE, n>> : n \in IdleSteps }

InitMove == ScoreInit /\ LoadLevel(MoveLevels) /\ GeomIdle /\ JumpIdle /\ AuxIdle

NextMove ==
    \/ \E in \in MoveRoundInputs(bricks) :
          Update(in[1], in[2], in[3], in[4]) /\ UNCHANGED <<geomVars, jumpVars, auxVars>>

SpecMove == InitMove /\ [][NextMove]_vars

(***************************************************************************)
(* Claims about ScoreManager (specification SpecScore)                      *)
(***************************************************************************)

\* C4 (as amended): update(dt) leaves the combo unchanged while the decay timer is
\* still > 0 after the call, and resets the combo to 0 in the very call in which
\* the timer reaches <= 0; an update called with the timer already <= 0 changes
\* nothing.
C4_ComboResetInSameTick ==
    lastOp.op = "update" =>
        /\ comboTimer > 0 => combo = lastOp.combo0
        /\ (lastOp.timer0 > 0 /\ comboTimer <= 0) => combo = 0
        /\ lastOp.timer0 <= 0 => (combo = lastOp.combo0 /\ comboTimer = lastOp.timer0)

\* C4 witness: an update has just taken the timer of a running combo to <= 0.
C4_Witness ==
    lastOp.op = "update" /\ lastOp.timer0 > 0 /\ lastOp.combo0 > 1 /\ comboTimer <= 0

\* C4 as stated: the combo is reset one tick after the tick in which the timer
\* reached <= 0, i.e. the update that takes the timer to <= 0 still keeps it.
C4_Original ==
    lastOp.op = "update" =>
        /\ comboTimer > 0 => combo = lastOp.combo0
        /\ (lastOp.timer0 > 0 /\ comboTimer <= 0) => combo = lastOp.combo0
        /\ (lastOp.timer0 <= 0 /\ lastOp.combo0 > 0) => combo = 0

\* C5 (as amended): a hit that brings the combo to 1 with multiplier 1 awards
\* basePoints; a hit that brings the combo to 11 with multiplier 2 awards
\* floor(basePoints * 2 * 2); the combo multiplier reaches its cap of 3 only at
\* combo 21, where multiplier 2 awards floor(basePoints * 3 * 2).
C5_CapReachedAt21 ==
    lastOp.op = "addBrickScore" =>
        /\ (combo = 1 /\ multiplier = 1) => lastOp.ret = lastOp.base
        /\ (combo = 11 /\ multiplier = 2) => lastOp.ret = lastOp.base * 2 * 2
        /\ (combo = 21 /\ multiplier = 2) => lastOp.ret = lastOp.base * 3 * 2

\* C5 witness: a scoring hit has brought the combo to 21 under multiplier 2.
C5_Witness ==
    lastOp.op = "addBrickScore" /\ combo = 21 /\ multiplier = 2 /\ lastOp.base > 0

\* C5 as stated: at combo 11 with multiplier 2 the award is floor(basePoints * 3 * 2).
C5_Original ==
    lastOp.op = "addBrickScore" =>
        /\ (combo = 1 /\ multiplier = 1) => lastOp.ret = lastOp.base
        /\ (combo = 11 /\ multiplier = 2) => lastOp.ret = lastOp.base * 3 * 2

\* the claim's formula floor(basePoints * min(1 + (combo - 1) * 0.1, 3) * multiplier),
\* in the program's arithmetic
C6_Formula(base, c, mult) ==
    FloorPoints(base, c, IF 10 + (c - 1) < 30 THEN 10 + (c - 1) ELSE 30, mult)

\* C6: addBrickScore increments the combo by 1, sets the decay timer to 2 s, adds
\* floor(basePoints * min(1 + (combo - 1) * 0.1, 3) * multiplier) to the score, with
\* the combo taken after the increment, and returns the amount added; no call
\* other than reset lowers the score.
C6_AddBrickScore ==
    [][ /\ lastOp'.op = "addBrickScore" =>
            /\ combo' = combo + 1
            /\ comboTimer' = ComboSteps
            /\ multiplier' = multiplier
            /\ score' = score + C6_Formula(lastOp'.base, combo', multiplier)
            /\ lastOp'.ret = score' - score
            /\ lastOp'.ret >= 0
        /\ lastOp'.op # "reset" => score' >= score ]_vars

\* C6 witness: a hit beyond the cap (combo 22) has added three times its base points.
C6_Witness ==
    /\ lastOp.op = "addBrickScore" /\ combo = 22 /\ multiplier = 1
    /\ lastOp.base = 50 /\ lastOp.ret = 150


(***************************************************************************)
(* Claims about the brick game                                             *)
(***************************************************************************)
Intact(b) == ~b.destroying /\ ~b.destroyed
Standard(b) == b.type \in {"NORMAL", "STRONG", "SUPER"}
\* the base values of the outcomes of one kind emitted for brick k
OutcomeBases(outs, kind, k) ==
    SelectSeq(outs, LAMBDA o : o.kind = kind /\ o.brick = k)

\* C1 as stated: over every step, whatever hits the bricks (ball, laser, blast,
\* EXPLOSIVE_NEXT), no brick's hitsRemaining grows, none is negative afterwards,
\* and a brick that is Destroying is not decremented again.
C1_Original ==
    [][ \A k \in 1..Len(bricks) :
          /\ bricks'[k].hitsRemaining <= bricks[k].hitsRemaining
          /\ bricks'[k].hitsRemaining >= 0
          /\ (bricks[k].destroying /\ ~bricks[k].destroyed)
                => bricks'[k].hitsRemaining = bricks[k].hitsRemaining ]_vars

\* C2: no brick's clones list ever holds more than maxClones = 3 entries, and a
\* brick that is itself a clone has created no clone: its clones list is empty
\* and no brick names a clone as its original.
C2_ClonesBounded ==
    \A k \in 1..Len(bricks) :
        /\ Len(bricks[k].clones) <= MaxClones
        /\ bricks[k].isClone => bricks[k].clones = <<>>
        /\ bricks[k].originalBrick # 0 => ~bricks[bricks[k].originalBrick].isClone

\* C2 witness: a clone has taken the hit that leaves it with one hit remaining,
\* the hit on which a MIRROR brick that is not a clone creates its clone.
C2_Witness ==
    \E k \in 1..Len(bricks) :
        /\ bricks[k].isClone /\ bricks[k].hitsRemaining = 1 /\ Intact(bricks[k])
        /\ Len(bricks[bricks[k].originalBrick].clones) = 1

\* C3 as stated: in a step that takes a clone from Intact to Destroying, if the
\* origin was Intact it is Destroying afterwards and exactly one bonus of base
\* 2 x origin.points is awarded for it; if the origin was Destroying or Destroyed
\* no bonus is awarded and its destroy timer is not restarted.
C3_Original ==
    [][ \A c \in 1..Len(bricks) :
          (bricks[c].isClone /\ Intact(bricks[c]) /\ bricks'[c].destroying) =>
            LET o == bricks[c].originalBrick
                bonus == OutcomeBases(outcomes', "bonus", o)
            IN  IF Intact(bricks[o])
                THEN /\ bricks'[o].destroying
                     /\ Len(bonus) = 1
                     /\ bonus[1].base = 2 * bricks[o].points
                ELSE /\ bonus = <<>>
                     /\ bricks'[o].destroyTime <= bricks[o].destroyTime ]_vars

\* C10: in a step in which handleExplosion runs for a brick i, every other brick
\* within 1.5 x (width + height) of it that was Intact with hitsRemaining = 1 is
\* Destroying when the step ends, and exactly one score outcome, of the brick's
\* point value, is emitted for it in that step.
C10_BlastDestroysNeighbours ==
    [][ \A e \in 1..Len(outcomes') :
          outcomes'[e].kind = "explosion" =>
            \A k \in 1..Len(bricks) :
              ( /\ k # outcomes'[e].brick
                /\ InRadius(bricks[outcomes'[e].brick], bricks[k], 3)
                /\ Intact(bricks[k]) /\ bricks[k].hitsRemaining = 1 ) =>
                  /\ bricks'[k].destroying
                  /\ bricks'[k].hitsRemaining = 0
                  /\ Len(OutcomeBases(outcomes', "score", k)) = 1
                  /\ OutcomeBases(outcomes', "score", k)[1].base = bricks[k].points ]_vars

\* C10 witness: an explosion has just destroyed two neighbours in its pass, one of
\* them at the very edge of the blast radius.
C10_Witness ==
    /\ outcomes # <<>> /\ outcomes[Len(outcomes)].kind = "score"
    /\ \E e \in 1..Len(outcomes) :
         /\ outcomes[e].kind = "explosion"
         /\ \E j, k \in 1..Len(bricks) :
              /\ j # k /\ j # outcomes[e].brick /\ k # outcomes[e].brick
              /\ bricks[k].x - bricks[outcomes[e].brick].x = 96
              /\ Len(OutcomeBases(outcomes, "score", j)) = 1
              /\ Len(OutcomeBases(outcomes, "score", k)) = 1
              /\ bricks[j].destroying /\ bricks[k].destroying
              /\ scoreCount[j] = 1 /\ scoreCount[k] = 1

(***************************************************************************)
(* Claims about bricks hit by the ball only (specification SpecBall)       *)
(***************************************************************************)

\* C9: a ball hit on a Standard brick with hitsRemaining = n > 1 leaves it Intact
\* with n - 1 and emits no score outcome; the hit with n = 1 takes it to
\* Destroying and emits one score outcome of the brick's point value; a Destroying
\* brick is not hit again and becomes Destroyed exactly when 13 fixed steps (the
\* 0.2 s timer) have run since it entered Destroying; no other step changes it.
\* Over the whole sequence the brick has been scored exactly once if it is
\* Destroying or Destroyed and not at all while Intact.
C9_StandardBrickByBall ==
    /\ [](\A k \in 1..Len(bricks) :
            Standard(bricks[k]) =>
                /\ bricks[k].hitsRemaining >= 0
                /\ bricks[k].destroyed => bricks[k].destroying
                /\ scoreCount[k] = IF bricks[k].destroying THEN 1 ELSE 0)
    /\ [][ \A k \in 1..Len(bricks) :
             Standard(bricks[k]) =>
               LET b == bricks[k]
                   c == bricks'[k]
                   dt == levelTime' - levelTime
                   scores == OutcomeBases(outcomes', "score", k)
               IN  \/ /\ c = b /\ scores = <<>>
                   \/ /\ Intact(b) /\ b.hitsRemaining > 1
                      /\ c = [b EXCEPT !.hitsRemaining = @ - 1]
                      /\ scores = <<>>
                   \/ /\ Intact(b) /\ b.hitsRemaining = 1
                      /\ c.hitsRemaining = 0 /\ c.destroying
                      /\ c.destroyTime = Max(0, DestroySteps - dt)
                      /\ c.destroyed = (dt >= DestroySteps)
                      /\ Len(scores) = 1 /\ scores[1].base = b.points
                   \/ /\ b.destroying /\ ~b.destroyed
                      /\ c = [b EXCEPT !.destroyTime = Max(0, @ - dt),
                                       !.destroyed = (b.destroyTime - dt <= 0)]
                      /\ scores = <<>> ]_vars

\* C9 witness: a brick that needed three hits is Destroyed, scored once, and the
\* round that ended its timer has just run.
C9_Witness ==
    \E k \in 1..Len(bricks) :
        /\ bricks[k].type = "SUPER" /\ bricks[k].destroyed /\ scoreCount[k] = 1
        /\ outcomes = <<>> /\ state = "playing"

(***************************************************************************)
(* Claims about Brick.checkCollision (specification SpecGeom)              *)
(***************************************************************************)
\* the ball's box touches the probed brick's edge on at least one axis: one of
\* the four overlaps is exactly 0
ProbeTouches ==
    \/ probe.bx + BallRadius = ProbeBrickX
    \/ probe.bx - BallRadius = ProbeBrickX + BrickW
    \/ probe.by + BallRadius = ProbeBrickY
    \/ probe.by - BallRadius = ProbeBrickY + BrickH

\* C7 (as amended): checkCollision reports a collision exactly when the brick is
\* not destroyed and the ball's box overlaps or touches the brick on both axes
\* (every overlap >= 0); a ball that exactly touches an edge, with the other axis
\* overlapping or touching, is reported as a collision.
C7_TouchingCollides ==
    (probe.res # "none") <=>
        /\ ~probe.destroyed
        /\ probe.bx + BallRadius >= ProbeBrickX
        /\ probe.bx - BallRadius <= ProbeBrickX + BrickW
        /\ probe.by + BallRadius >= ProbeBrickY
        /\ probe.by - BallRadius <= ProbeBrickY + BrickH

\* C7 witness: the ball's right edge is exactly on the brick's left edge, the ball
\* is level with the brick, and a collision with the left side is reported.
C7_Witness ==
    /\ probe.bx + BallRadius = ProbeBrickX /\ probe.by = 58 /\ ~probe.destroyed
    /\ probe.res = "x-left"

\* C7 as stated: when the ball exactly touches an edge of the brick (overlap 0 on
\* an axis) no collision is reported.
C7_Original ==
    ProbeTouches => probe.res = "none"

(***************************************************************************)
(* Claims about the jump game (specification SpecJump)                     *)
(***************************************************************************)
SplitEvents(evs) == SelectSeq(evs, LAMBDA e : e.ev = "bubble:split")

\* C8: in every frame, a bubble:split event is emitted only for a bubble whose
\* isClone is false, a new bubble is created exactly when a split event is
\* emitted, and every bubble a split creates has isClone = true; so a clone
\* standing on a rainbow platform produces no split and no further bubble.
C8_OnlyOriginalsSplit ==
    [][ /\ \A e \in 1..Len(jumpEvents') :
             jumpEvents'[e].ev = "bubble:split" => ~bubbles[jumpEvents'[e].bubble].isClone
        /\ Len(bubbles') = Len(bubbles) + Len(SplitEvents(jumpEvents'))
        /\ \A k \in (Len(bubbles) + 1)..Len(bubbles') : bubbles'[k].isClone
        /\ \A k \in 1..Len(bubbles) : bubbles'[k].isClone = bubbles[k].isClone ]_vars

\* C8 witness: a clone has just landed on a rainbow platform, and the frame has
\* emitted no split event.
C8_Witness ==
    /\ \E e \in 1..Len(jumpEvents) :
         /\ jumpEvents[e].ev = "collision:rainbow"
         /\ bubbles[jumpEvents[e].bubble].isClone
    /\ SplitEvents(jumpEvents) = <<>>

(***************************************************************************)
(* Claims about PowerUpManager (specification SpecPower)                    *)
(***************************************************************************)

\* the ids of the types with duration 0
InstantIds == { type.id : type \in { t \in PowerUpTypes : t.duration = 0 } }

\* C11: activeEffects never holds two entries with the same effect id and never
\* an entry of a type with duration 0; activate(type) of a timed type that is
\* already active keeps the list as long as it was and sets that entry's
\* remaining time to the full duration, leaving the other entries alone;
\* activate of a type with duration 0 leaves the list unchanged.
C11_OneTimerPerEffect ==
    /\ [](\A i, j \in 1..Len(activeEffects) :
            /\ (i # j => activeEffects[i].id # activeEffects[j].id)
            /\ activeEffects[i].id \notin InstantIds)
    /\ [][ powerOp'.op = "activate" =>
             LET k == FindEffect(activeEffects, powerOp'.id, 1)
             IN  /\ (k # 0 /\ powerOp'.duration > 0) =>
                       /\ Len(activeEffects') = Len(activeEffects)
                       /\ activeEffects'[k].remaining = powerOp'.duration
                       /\ \A i \in 1..Len(activeEffects) :
                             i # k => activeEffects'[i] = activeEffects[i]
                 /\ powerOp'.duration = 0 => activeEffects' = activeEffects ]_vars

\* C11 witness: three timed effects are active and activate has just reset the
\* timer of one that was already in the list (it is not the last entry) while
\* another one has partly run down.
C11_Witness ==
    /\ powerOp.op = "activate" /\ powerOp.duration > 0
    /\ Len(activeEffects) = 3
    /\ \E k \in 1..2 :
         /\ activeEffects[k].id = powerOp.id
         /\ activeEffects[k].remaining = powerOp.duration
    /\ \E i \in 1..3 : activeEffects[i].remaining < 8

(***************************************************************************)
(* Claims about EntityManager (specification SpecEntity)                    *)
(***************************************************************************)

\* the ids the queries yield
QueriedIds ==
    { e.id : e \in GetAllEntities(entities) }
    \cup UNION { { e.id : e \in GetEntitiesByType(entities, entitiesByType, t) } : t \in ClearTypes }

\* C12: the queries yield only stored entities and the counts count exactly them;
\* after destroyEntity(id), getEntity(id) is null, hasEntity(id) is false and no
\* query yields the id; destroyEntity of an id that is not stored (unknown or
\* already destroyed) changes no field and emits no event, and destroyEntity of
\* a stored id emits exactly one entity:destroyed event.
C12_DestroyedNeverQueried ==
    /\ [](/\ QueriedIds = DOMAIN entities
          /\ GetTotalCount(entities) = Cardinality(GetAllEntities(entities))
          /\ \A t \in ClearTypes :
                GetCountByType(entitiesByType, t)
                    = Cardinality(GetEntitiesByType(entities, entitiesByType, t)))
    /\ [][ entityOp'.op = "destroy" =>
             /\ GetEntity(entities', entityOp'.id) = Null
             /\ ~HasEntity(entities', entityOp'.id)
             /\ IF HasEntity(entities, entityOp'.id)
                THEN /\ Len(entityEvents') = 1
                     /\ entityEvents'[1].ev = "entity:destroyed"
                     /\ entityEvents'[1].id = entityOp'.id
                ELSE /\ entityEvents' = <<>>
                     /\ <<entities', entitiesByType', nextId'>> = <<entities, entitiesByType, nextId>>
           ]_vars

\* C12 witness: destroyEntity has just been called on an id that had been issued
\* and destroyed before, while other entities of both types are stored.
C12_Witness ==
    /\ entityOp.op = "destroy" /\ entityOp.id \in issued
    /\ entityEvents = <<>>
    /\ ~HasEntity(entities, entityOp.id)
    /\ \A t \in EntityTypes : GetCountByType(entitiesByType, t) >= 1

\* C19 (as claimed): createEntity never returns an id that was issued before.
C19_Original ==
    [][ entityOp'.op = "create" => entityOp'.id \notin issued ]_vars

(***************************************************************************)
(* Claims about Game.gameLoop (specification SpecLoop)                      *)
(***************************************************************************)

\* C13: in every frame the delta added to the accumulator is at most 0.1 s,
\* update is called only with dt = fixedTimeStep, as many times as whole fixed
\* steps fit into the accumulator plus the delta, at most 6 + 1 times, and
\* after every frame 0 <= accumulator < fixedTimeStep.
C13_FixedStepLoop ==
    /\ [](accumulator >= 0 /\ accumulator < FixedTimeStep)
    /\ [][ loopOp'.op = "frame" =>
             /\ loopOp'.dt >= 0 /\ loopOp'.dt <= MaxFrameDt
             /\ \A i \in 1..Len(loopOp'.updates) : loopOp'.updates[i] = FixedTimeStep
             /\ Len(loopOp'.updates) = (accumulator + loopOp'.dt) \div FixedTimeStep
             /\ Len(loopOp'.updates) <= (MaxFrameDt \div FixedTimeStep) + 1
             /\ accumulator' = (accumulator + loopOp'.dt) % FixedTimeStep ]_vars

\* C13 witness: a frame after a stall has run the most fixed steps a clamped
\* delta allows and has carried a remainder over.
C13_Witness ==
    /\ loopOp.op = "frame" /\ loopOp.dt = MaxFrameDt
    /\ Len(loopOp.updates) = MaxFrameDt \div FixedTimeStep
    /\ accumulator > 0

\* C15 (as claimed): a launch intent (justPressed) is never cleared by a frame
\* in which no fixed update step has seen it.
C15_Original ==
    [][ (loopOp'.op = "frame" /\ mouseJustPressed /\ ~mouseJustPressed') => loopOp'.sawPress ]_vars

(***************************************************************************)
(* Further claims about the brick game                                     *)
(***************************************************************************)

\* the bricks whose hitsRemaining a step has changed
HitBricks(before, after) ==
    { k \in 1..Len(before) : after[k].hitsRemaining # before[k].hitsRemaining }

\* C14: in a round whose first fixed step has the ball colliding with one or more
\* bricks (and whose other steps have no contact), at most one brick is hit, and
\* it is the first brick of Game.bricks that checkBallBrickCollision reports; the
\* other bricks the ball collides with are left as they are, and a round in
\* which the ball collides with no brick hits none.
C14_OneBrickPerBallStep ==
    [][ LET hit == HitBricks(bricks, bricks')
        IN  /\ Cardinality(hit) <= 1
            /\ ballTouched' = {} => hit = {}
            /\ ballTouched' # {} =>
                 /\ hit \subseteq { CHOOSE k \in ballTouched' : \A j \in ballTouched' : k <= j }
                 /\ \A k \in ballTouched' \ hit :
                      bricks'[k].hitsRemaining = bricks[k].hitsRemaining ]_vars

\* C14 witness: the ball has collided with two bricks at once in the first round;
\* the first of them has lost a hit and the second still has all its hits.
C14_Witness ==
    /\ rounds = 1
    /\ \E k \in 1..(Len(bricks) - 1) :
         /\ ballTouched = {k, k + 1}
         /\ bricks[k].hitsRemaining = TypeHits(bricks[k].type) - 1
         /\ bricks[k + 1].hitsRemaining = TypeHits(bricks[k + 1].type)
         /\ bricks[k + 1].hitsRemaining < Infinity

(***************************************************************************)
(* Claims about the deferred explosions (specification SpecFlow)            *)
(***************************************************************************)

\* C16 (as claimed): a chained handleExplosion whose timer was set before a life
\* loss or before the start of a new game changes no brick and adds no score
\* when it runs.
C16_Original ==
    [][ (flowOp' = "chain" /\ Head(pendingExplosions).old) =>
            (bricks' = bricks /\ score' = score) ]_vars

\* C17 (as claimed): a detonation chain hits each EXPLOSIVE brick at most once:
\* no EXPLOSIVE brick (which the ball cannot touch once it is being destroyed)
\* is taken below 0 hits, and none is scored more than once.
C17_Original ==
    \A k \in 1..Len(bricks) :
        bricks[k].type = "EXPLOSIVE" =>
            (bricks[k].hitsRemaining >= 0 /\ scoreCount[k] <= 1)

\* C18 (as claimed): a step that begins and ends in a state other than PLAYING
\* changes no brick, not the brick list, and neither score nor combo.
C18_Original ==
    [][ (state # "playing" /\ state' # "playing") =>
            (bricks' = bricks /\ score' = score /\ combo' = combo) ]_vars

(***************************************************************************)
(* Claims about the particle stores (specification SpecParticle)            *)
(***************************************************************************)
LiveParticles(ps) == {ps[i].n : i \in 1..Len(ps)}

\* C20 (as claimed): in both particle stores a request made while the number
\* of live particles is at the cap creates the requested particle and evicts
\* the oldest live one, and after a create, an update or a setMaxParticles no
\* store holds more live particles than its cap.
C20_Original ==
    [][ /\ Len(particles') <= maxParticles'
        /\ Len(poolActive') <= PoolCap
        /\ (particleOp'.op = "createParticle" /\ Len(particles) >= maxParticles) =>
              /\ nextSerial \in LiveParticles(particles')
              /\ particles[1].n \notin LiveParticles(particles')
        /\ (particleOp'.op = "emit" /\ Len(poolActive) >= PoolCap) =>
              /\ nextSerial \in LiveParticles(poolActive')
              /\ poolActive[1].n \notin LiveParticles(poolActive')
      ]_vars

(***************************************************************************)
(* Claims about the collision tests on bricks being destroyed               *)
(* (specification Spec)                                                     *)
(***************************************************************************)

\* C21 (as claimed): for a brick of Game.bricks that is Destroying or Destroyed
\* neither checkBallBrickCollision nor checkLaserBrickCollision reports a
\* collision, wherever inside a brick the ball or the laser is.
C21_Original ==
    \A k \in 1..Len(bricks) :
        (bricks[k].destroying \/ bricks[k].destroyed) =>
            /\ \A p \in BallInputs(bricks) : ~BallBrickCollision(p, bricks[k])
            /\ \A l \in LaserInputs(bricks, 0) : ~LaserBrickCollision(l, bricks[k])

(***************************************************************************)
(* Claims about PowerUpManager.update (specification SpecPower)             *)
(***************************************************************************)

\* C22 (as claimed): an update(dt) call takes dt off the remaining time of every
\* active effect; an effect whose remaining time reaches <= 0 is no longer
\* active after the call and is the one reported as expired, every other effect
\* stays active with its remaining time reduced by dt.
C22_Original ==
    [][ powerOp'.op = "update" =>
          \A k \in 1..Len(activeEffects) :
              LET e == activeEffects[k]
                  left == e.remaining - powerOp'.duration
              IN  IF left <= 0
                  THEN /\ FindEffect(activeEffects', e.id, 1) = 0
                       /\ powerOp'.id = e.id
                  ELSE /\ FindEffect(activeEffects', e.id, 1) # 0
                       /\ activeEffects'[FindEffect(activeEffects', e.id, 1)].remaining = left
      ]_vars

(***************************************************************************)
(* Claims about the collision axis (specification SpecGeom)                 *)
(***************************************************************************)
\* the smaller of the probe's two overlaps on each axis, and the reported axis
ProbeMinOverlapX ==
    Min((probe.bx + BallRadius) - ProbeBrickX, (ProbeBrickX + BrickW) - (probe.bx - BallRadius))
ProbeMinOverlapY ==
    Min((probe.by + BallRadius) - ProbeBrickY, (ProbeBrickY + BrickH) - (probe.by - BallRadius))
ProbeAxis ==
    IF probe.res \in {"x-left", "x-right"} THEN "x"
    ELSE IF probe.res \in {"y-top", "y-bottom"} THEN "y" ELSE "none"

\* C23 (as amended): when checkCollision reports a collision, the axis is 'x'
\* exactly when the minimum overlap on the horizontal axis is strictly smaller
\* than the one on the vertical axis; when the two minimum overlaps are equal
\* the vertical axis is chosen (result axis 'y').
C23_TieIsVertical ==
    probe.res # "none" =>
        /\ (ProbeMinOverlapX < ProbeMinOverlapY => ProbeAxis = "x")
        /\ (ProbeMinOverlapX > ProbeMinOverlapY => ProbeAxis = "y")
        /\ (ProbeMinOverlapX = ProbeMinOverlapY => ProbeAxis = "y")

\* C23 witness: the ball overlaps the brick's top left corner by 1 pixel on
\* both axes, and the collision is reported on the vertical axis.
C23_Witness ==
    /\ ~probe.destroyed
    /\ ProbeMinOverlapX = 1 /\ ProbeMinOverlapY = 1
    /\ probe.res = "y-top"

\* C23 as stated: on equal minimum overlaps the horizontal axis is chosen.
C23_Original ==
    (probe.res # "none" /\ ProbeMinOverlapX = ProbeMinOverlapY) => ProbeAxis = "x"

(***************************************************************************)
(* Claims about the ball-brick response (specification SpecResp)            *)
(***************************************************************************)
\* C24: when checkBallBrickCollision reports a collision, a mega ball that hit a
\* brick other than METAL has its position and velocity unchanged (the collision
\* is still returned, so the brick is hit); any other ball, and a mega ball that
\* hit a METAL brick, has the velocity on the collision axis negated, the other
\* velocity and the other coordinate unchanged, and no longer overlaps the brick.
C24_ReflectUnlessMegaPass ==
    ballProbe.res # "none" =>
        LET b == ballProbe.ball
            a == ballProbe.after
        IN  IF ballProbe.isMega /\ ballProbe.type # "METAL"
            THEN a = b
            ELSE /\ CheckCollision(a[1], a[2], BallRadius, ProbeBrickX, ProbeBrickY, FALSE) = "none"
                 /\ ballProbe.res \in {"x-left", "x-right"} =>
                        (a[3] = -b[3] /\ a[4] = b[4] /\ a[2] = b[2])
                 /\ ballProbe.res \in {"y-top", "y-bottom"} =>
                        (a[4] = -b[4] /\ a[3] = b[3] /\ a[1] = b[1])

\* C24 witness: a mega ball has hit the top of a METAL brick and is reflected
\* upwards and put above the brick.
C24_Witness ==
    /\ ballProbe.isMega /\ ballProbe.type = "METAL"
    /\ ballProbe.res = "y-top"
    /\ ballProbe.ball[4] = 3 /\ ballProbe.after[4] = -3
    /\ ballProbe.after[2] = ProbeBrickY - BallRadius - 1

(***************************************************************************)
(* Claims about platform contacts (specification SpecContact)               *)
(***************************************************************************)
ContactsOfBubble(cs, b) == SelectSeq(cs, LAMBDA c : c.bubble = b)
ContactsOfPlatform(cs, p) == SelectSeq(cs, LAMBDA c : c.platform = p)

\* C25: in every frame every contact CollisionSystem.update handles is for a
\* bubble whose vy was > 0 when the contact was tested, the response leaves the
\* bubble with vy < 0, and no bubble has more than one contact handled in the
\* pass, whatever the number of platforms it overlaps.
C25_OneContactPerBubble ==
    /\ \A c \in 1..Len(jumpContacts) : jumpContacts[c].vy > 0
    /\ \A c \in 1..Len(jumpContacts) : bubbles[jumpContacts[c].bubble].vy < 0
    /\ \A b \in 1..Len(bubbles) : Len(ContactsOfBubble(jumpContacts, b)) <= 1

\* C25 witness: a falling bubble overlapped two platforms in one pass and the
\* contact with the first of them is the only contact handled in the frame.
C25_Witness ==
    /\ Len(jumpContacts) = 1
    /\ Cardinality(jumpContacts[1].over) = 2
    /\ \A q \in jumpContacts[1].over : jumpContacts[1].platform <= q
    /\ jumpContacts[1].vy > 0

\* C30 (as claimed): in every frame at most one contact is handled against a
\* given breaking platform, and platform:break is emitted at most once for it.
C30_Original ==
    [][ \A p \in 1..Len(platforms) :
            platforms[p].platformType = "breaking" =>
                /\ Len(ContactsOfPlatform(jumpContacts', p)) <= 1
                /\ Len(SelectSeq(jumpEvents',
                         LAMBDA e : e.ev = "platform:break" /\ e.platform = p)) <= 1
      ]_vars

(***************************************************************************)
(* Claims about power-up drops, party mode, teleports and clones           *)
(* (specification SpecSpecial)                                             *)
(***************************************************************************)
\* Brick.hit's dropPowerUp for brick b
DropsPowerUp(b) == b.type \in {"POWER", "SUPER_POWERUP"} \/ b.hiddenPowerUp

\* powerUpManager.spawn or spawnSpecific was called for brick k in the step
PowerUpSpawned(outs, k) ==
    \E e \in 1..Len(outs) : outs[e].kind = "powerup" /\ outs[e].brick = k

\* brick k starts its destroy animation in the step
StartsDestroying(k) == ~bricks[k].destroying /\ bricks'[k].destroying

\* C26 as stated: every brick that drops a pickup (POWER, SUPER_POWERUP, hidden
\* power-up) has its pickup spawned in the step in which it starts being
\* destroyed, whatever destroys it (ball, laser, blast, destruction of its clone)
C26_Original ==
    [][ \A k \in 1..Len(bricks) :
          (DropsPowerUp(bricks[k]) /\ StartsDestroying(k)) => PowerUpSpawned(outcomes', k) ]_vars

\* C27 as stated: while party mode is armed (from the destruction of a
\* SUPER_POWERUP brick until 10 simulated seconds have passed, a life is lost or
\* the level is completed), every brick that starts being destroyed, by whatever
\* cause, has a power-up spawned for it
C27_Original ==
    [][ (partyModeTimer > 0 /\ partyModeTimer' > 0) =>
          \A k \in 1..Len(bricks) : StartsDestroying(k) => PowerUpSpawned(outcomes', k) ]_vars

\* the brick the ball hits in the step: the first of the list it collides with
BallHits(k) == k \in ballTouched' /\ \A j \in ballTouched' : k <= j

\* the hit of brick k calls findEmptyBrickPosition
NeedsPosition(k) == Hit(bricks[k]).res.shouldTeleport \/ Hit(bricks[k]).res.createClone

\* a position was found for brick k in the step: it teleports or is cloned
PositionFound(outs, k) ==
    \E e \in 1..Len(outs) : outs[e].brick = k /\ outs[e].kind \in {"teleport", "clone"}

\* C28: when the ball hits a MOVING or MIRROR brick whose hit asks for a position
\* and findEmptyBrickPosition finds none, the step changes of the brick only
\* hitsRemaining (and what Brick.update does to any brick: a move already under
\* way goes on), no brick is added, and the game goes on
C28_FailedSearchOnlyHits ==
    [][ \A k \in 1..Len(bricks) :
          (BallHits(k) /\ NeedsPosition(k) /\ ~PositionFound(outcomes', k)) =>
              /\ bricks'[k] = BrickUpdate([bricks[k] EXCEPT !.hitsRemaining = @ - 1])
              /\ Len(bricks') = Len(bricks)
              /\ state' = "playing" ]_vars

\* a MOVING brick at rest in its level position, one hit taken by the ball in the
\* step that just ran, for which no position was found
C28_Witness ==
    /\ flowOp = "update" /\ ballTouched = {1}
    /\ bricks[1].type = "MOVING" /\ bricks[1].hitsRemaining = 1
    /\ ~bricks[1].isMoving /\ ~bricks[1].destroying
    /\ <<bricks[1].x, bricks[1].y>> = <<CellX(4), CellY(2)>>
    /\ bricks[1].moveTarget = <<CellX(4), CellY(2)>>
    /\ ~PositionFound(outcomes, 1)

\* C29 as stated: a MIRROR brick is duplicated on its first hit only, the hit
\* that takes hitsRemaining from its maximum to one less, whatever the maximum
\* (also that of a brick strengthened by applyLevelStrength)
C29_Original ==
    [][ \A e \in 1..Len(outcomes') :
          outcomes'[e].kind = "clone" =>
              bricks[outcomes'[e].brick].hitsRemaining = bricks[outcomes'[e].brick].maxHits ]_vars

(***************************************************************************)
(* Claims about the Bomb Ball power-up (specification Spec)                *)
(***************************************************************************)
\* handleExplosion ran in the step for a brick hit by the ball or a laser
ExplosionTriggered(outs) == \E e \in 1..Len(outs) : outs[e].kind = "explosion"

\* C31 as stated: nextBrickExplodes, set by collecting the Bomb Ball power-up, is
\* cleared only in a step in which a hit triggers handleExplosion; a hit that
\* leaves the brick intact or a hit on a METAL brick does not consume it
C31_Original ==
    [][ (nextBrickExplodes /\ ~nextBrickExplodes') => ExplosionTriggered(outcomes') ]_vars

(***************************************************************************)
(* Claims about EventBus (specification SpecBus)                           *)
(***************************************************************************)
\* the callbacks subscribed when the emit just made started
StartCallbacks == busOp.start \o busOp.startOnce

\* callback id was called in the emit just made (by it or by an emit nested in it)
Called(id) == \E i \in 1..Len(busOp.calls) : busOp.calls[i][1] = id

\* the number of calls the emit just made made itself to callback id
DirectCalls(id) == Cardinality({ i \in 1..Len(busOp.calls) : busOp.calls[i] = <<id, 0>> })

\* C32: a callback registered with once is called at most once over all emits,
\* also when a listener emits the event again from inside its call; and in an
\* emit during which nothing is unsubscribed every callback subscribed at its
\* start is called, whichever of them throw
C32_OnceAtMostOnce ==
    /\ \A id \in DOMAIN busOnceCalls : busOnceCalls[id] <= 1
    /\ (busOp.op = "emit"
          /\ \A k \in 1..Len(StartCallbacks) : StartCallbacks[k].act # "off") =>
            \A k \in 1..Len(StartCallbacks) : Called(StartCallbacks[k].id)

\* an emit with a nested emit in which a once callback was called, and in which
\* a callback was called by the emit itself after one that threw
C32_Witness ==
    /\ busOp.op = "emit"
    /\ \E k \in 1..Len(busOp.startOnce) : busOnceCalls[busOp.startOnce[k].id] = 1
    /\ \E i \in 1..Len(busOp.calls) : busOp.calls[i][2] = 1
    /\ \E k \in 1..Len(StartCallbacks) :
         /\ StartCallbacks[k].act = "throw"
         /\ \E i, j \in 1..Len(busOp.calls) :
              /\ i < j
              /\ busOp.calls[i] = <<StartCallbacks[k].id, 0>>
              /\ busOp.calls[j][2] = 0

\* C39 as stated: an emit calls every listener that is subscribed when it starts
\* exactly once itself, also when a listener unsubscribes itself or another
\* listener during the emit
C39_Original ==
    (busOp.op = "emit" /\ \A k \in 1..Len(StartCallbacks) : StartCallbacks[k].act \in {"none", "off"}) =>
        \A k \in 1..Len(StartCallbacks) : DirectCalls(StartCallbacks[k].id) = 1

(***************************************************************************)
(* Claims about lives and the game state (specification SpecLives)         *)
(***************************************************************************)
\* C33 as stated: while the state is PLAYING the player has between 1 and
\* maxLives lives, and a fixed step in which the last life is lost ends in
\* GAME_OVER: LEVEL_COMPLETE does not replace it in that step
C33_Original ==
    /\ state = "playing" => (1 <= lives /\ lives <= MaxLives)
    /\ (flowOp = "loseLife" /\ lives <= 0) => state = "gameOver"

(***************************************************************************)
(* Claims about the power-up effects (specifications SpecEffects and       *)
(* SpecRestart)                                                            *)
(***************************************************************************)
\* C34 as stated: ScoreManager.multiplier differs from 1 only while the
\* PowerUpManager has an active "multiplier" effect, also after loseLife and
\* loadLevel have removed the effect timers
C34_Original == multiplier # 1 => FindEffect(activeEffects, "multiplier", 1) # 0

\* C35 as stated: once every extend and shrink effect collected has run out,
\* the paddle has its base width again, also when a kind was collected again
\* while it was active
C35_Original ==
    (/\ effectOp.op = "update"
     /\ FindEffect(activeEffects, "extend", 1) = 0
     /\ FindEffect(activeEffects, "shrink", 1) = 0) => paddleWidth = BasePaddleWidth

\* C36 as stated: immediately after startGame, from whatever state it is
\* invoked, party mode, Auto Burst and Bomb Ball are off, the score multiplier
\* is 1, and there are no active effects and no falling power-ups
C36_Original ==
    effectOp.op = "startGame" =>
        /\ partyModeTimer = 0
        /\ autoBurstBallsRemaining = 0
        /\ ~nextBrickExplodes
        /\ multiplier = 1
        /\ activeEffects = <<>>
        /\ powerUps = 0

(***************************************************************************)
(* Claims about reverse gravity (specification SpecGravity)                *)
(***************************************************************************)
\* the pending timeouts of an owner for a bubble
PendingFor(owner, bubbleId) ==
    { k \in 1..Len(timeouts) : timeouts[k].owner = owner /\ timeouts[k].bubble = bubbleId }

RectsOverlap(a, b) ==
    /\ a.x < b.x + BrickW /\ b.x < a.x + BrickW
    /\ a.y < b.y + BrickH /\ b.y < a.y + BrickH

\* C38 as stated: once every moving brick has reached its target, no two bricks
\* that are not destroyed have overlapping rectangles
C38_Original ==
    (\A k \in 1..Len(bricks) : ~bricks[k].isMoving) =>
        \A j \in 1..Len(bricks), k \in 1..Len(bricks) :
            (j < k /\ ~bricks[j].destroyed /\ ~bricks[k].destroyed)
                => ~RectsOverlap(bricks[j], bricks[k])

====
